---- MODULE Spec2Model ----
(***************************************************************************)
(* A model of the Market-Dashboard fetch scheduler (src/src/fetcher.py),   *)
(* the raw data store (src/src/storage.py) and the JSON write disciplines  *)
(* (storage.py, utils/data_helpers.py, analytics/aggregator.py).           *)
(***************************************************************************)
EXTENDS Integers, Sequences, FiniteSets, TLC

(***************************************************************************)
(* Bounds of the model.                                                    *)
(***************************************************************************)
\* the wall clock (datetime.utcnow()) runs over 0..MaxTime
MaxTime == 3
\* number of fetch_batch runs explored
MaxRuns == 2
\* --batch-size is drawn from 0..MaxBatch
MaxBatch == 3
\* bar dates are 1..MaxDate, compared as the ISO date strings are
MaxDate == 2
\* length of a list of bars handed to save_symbol_data
MaxLen == 2
\* number of file writes explored, each writing the next generation of a file
MaxGen == 2
\* the JSON text of a file reaches the disk in Chunks pieces
Chunks == 2
\* length of the symbol strings handed to the file-name computations
MaxSymLen == 3
\* the longest series handed to the indicators has the 200 bars of the
\* longest window and MaxExtra more
MaxExtra == 2
\* the longest raw series handed to calculate_for_symbol has the 50 bars it
\* asks for and MaxOver more
MaxOver == 0
\* the longest symbols array of latest_values.json handed to the rankings
MaxSyms == 6

VARIABLES
    clock,          \* datetime.utcnow()
    metadata,       \* data/metadata/update_status.json: symbol -> entry
    raw,            \* data/raw/<stem>.json: symbol -> file content
    last_save,      \* arguments and prior file content of the latest save_symbol_data
    alpha_vantage,  \* MarketDataFetcher.alpha_vantage is not None (API key configured)
    pc,             \* position of the fetch_batch run
    runs,           \* fetch_batch runs completed
    max_symbols,    \* argument of the current fetch_batch run
    ticker_priorities, \* _get_prioritized_tickers: the sorted (symbol, level, last_updated)
    prioritized,    \* fetch_batch: prioritized
    batch,          \* fetch_batch: batch
    idx,            \* fetch_batch: position of the for loop in batch
    successful,     \* fetch_batch: successful
    failed,         \* fetch_batch: failed
    rate_limited,   \* fetch_batch: rate_limited
    attempted,      \* symbols handed to fetch_symbol in this run, with the outcome
    propagated,     \* an exception escaped fetch_batch
    summary,        \* the numbers printed by the latest "Fetch Summary"
    files,          \* the JSON files on disk: path -> the text written so far
    gen,            \* number of file writes started
    writer,         \* the write in progress, or what became of the latest one
    seen            \* what the dashboard got from its latest read of a file

fetchVars == <<alpha_vantage, pc, runs, max_symbols, ticker_priorities, prioritized,
               batch, idx, successful, failed, rate_limited, attempted, propagated,
               summary>>
storeVars == <<clock, metadata, raw, last_save>>
writeVars == <<files, gen, writer, seen>>

VARIABLES
    symbol_arg,     \* the symbol string a file name is computed for
    safe_symbol     \* the safe_symbol each module computes for it, or None

stemVars == <<symbol_arg, safe_symbol>>

VARIABLES
    df,             \* an ascending OHLCV series handed to TechnicalIndicators
    df2,            \* a second series, handed to it independently
    table,          \* the table computed from df so far
    table2,         \* the table computed from df2 so far
    stage           \* how far calculate_for_symbol has taken the two tables

indicatorVars == <<df, df2, table, table2, stage>>

VARIABLES
    technical,      \* data/analytics/technical/<stem>.json: stem -> file content
    fundamentals,   \* data/analytics/fundamentals/<stem>.json: the stems written
    calc_pc,        \* position of the AnalyticsCalculator.calculate_all run
    calc_symbols,   \* calculate_all: symbols
    include_fundamentals, \* calculate_all: include_fundamentals
    calc_idx,       \* calculate_all: position of the for loop in symbols
    calc_successful, \* calculate_all: successful
    calc_failed,    \* calculate_all: failed
    calc_returned,  \* what calculate_for_symbol returned for each symbol so far
    calc_results    \* the dict calculate_all returned, or None

calcVars == <<technical, fundamentals, calc_pc, calc_symbols, include_fundamentals,
              calc_idx, calc_successful, calc_failed, calc_returned, calc_results>>

VARIABLES
    glob_order,     \* the order in which glob yields data/analytics/technical/*.json
    latest_values,  \* aggregated/latest_values.json, or None
    by_category,    \* aggregated/by_category.json, or None
    performance_rankings, \* aggregated/performance_rankings.json, or None
    active_signals, \* aggregated/active_signals.json, or None
    agg_pc,         \* position of the aggregator within create_all
    agg_previous,   \* the four files as the create_all before this one left them
    agg_raised      \* whether a call of the aggregator raised

aggVars == <<glob_order, latest_values, by_category, performance_rankings,
             active_signals, agg_pc, agg_previous, agg_raised>>

VARIABLES
    rate_now,           \* time.time(), in seconds
    last_request_time,  \* last_request_time of AlphaVantageAPI and of YahooFinanceAPI
    request_log         \* the requests each of the two has sent: when, and how they ended

rateVars == <<rate_now, last_request_time, request_log>>

VARIABLES
    trailing_pe,        \* what yfinance answers for SPY: info['trailingPE']
    tyx_close,          \* what yfinance answers for ^TYX: the closes of the last 5 days
    health_assessment   \* what calculate_market_health_score returned, or None

healthVars == <<trailing_pe, tyx_close, health_assessment>>

\* the state of the other modules, which the fetcher and the store leave alone
laterVars == <<stemVars, indicatorVars, calcVars, aggVars, rateVars, healthVars>>

vars == <<clock, metadata, raw, last_save, alpha_vantage, pc, runs, max_symbols,
          ticker_priorities, prioritized, batch, idx, successful, failed,
          rate_limited, attempted, propagated, summary, files, gen, writer, seen,
          laterVars>>

Min(a, b) == IF a <= b THEN a ELSE b

(***************************************************************************)
(* Symbols are strings; the model writes a string as the sequence of its   *)
(* characters so that str.replace can be computed.                         *)
(***************************************************************************)
VIX == <<"^", "V", "I", "X">>
NVDA == <<"N", "V", "D", "A">>
BTC_USD == <<"B", "T", "C", "-", "U", "S", "D">>
GLD == <<"G", "L", "D">>
DGS10 == <<"D", "G", "S", "1", "0">>

(***************************************************************************)
(* config/tickers.csv as read by ConfigLoader.load_tickers: the rows whose *)
(* enabled column is TRUE, in file order.                                  *)
(***************************************************************************)
Config ==
    << [symbol |-> VIX, type |-> "index", category |-> "volatility",
        api_source |-> "yahoo_finance", enabled |-> TRUE],
       [symbol |-> NVDA, type |-> "stock", category |-> "tech",
        api_source |-> "alpha_vantage", enabled |-> TRUE],
       [symbol |-> GLD, type |-> "etf", category |-> "commodities",
        api_source |-> "alpha_vantage", enabled |-> FALSE],
       [symbol |-> DGS10, type |-> "indicator", category |-> "rates",
        api_source |-> "fred", enabled |-> TRUE] >>

load_tickers == SelectSeq(Config, LAMBDA row : row.enabled)

Symbols == {Config[i].symbol : i \in 1..Len(Config)}

(***************************************************************************)
(* DataStorage (src/src/storage.py).                                       *)
(***************************************************************************)
\* str.replace(old, new) for a one-character old and a new of length <= 1
RECURSIVE replace(_, _, _)
replace(s, old, new) ==
    IF s = <<>> THEN <<>>
    ELSE (IF Head(s) = old THEN new ELSE <<Head(s)>>) \o replace(Tail(s), old, new)

\* the stem of data_dir / f"{safe_symbol}.json"
get_symbol_file_path(symbol) == replace(replace(symbol, "-", <<"_">>), "^", <<>>)

Stems == {get_symbol_file_path(s) : s \in Symbols}

\* Optional[...]: None is the empty sequence, a value x is <<x>>
None == <<>>
Some(x) == <<x>>

\* dict.get(key) of a JSON object, and the object with one key set
get(d, key) == IF key \in DOMAIN d THEN Some(d[key]) ELSE None
put(d, key, value) == [k \in DOMAIN d \cup {key} |-> IF k = key THEN value ELSE d[k]]

\* an OHLCV bar: its date and its field values (one value stands for
\* open, high, low, close and volume, which the store never looks at);
\* two values tell two bars of one date apart
Prices == {100, 105}
Bars == [date : 1..MaxDate, close : Prices]

\* every list of at most MaxLen bars, duplicates of a date included
BarLists == UNION {[1..n -> Bars] : n \in 0..MaxLen}

DatesOf(data) == {data[i].date : i \in 1..Len(data)}

\* list.sort(key=lambda x: x['date'], reverse=True): a stable sort, so
\* bars of equal date keep their order.  x goes behind every bar of s
\* whose date is >= its own.
InsertDesc(x, s) ==
    LET n == Cardinality({i \in 1..Len(s) : s[i].date >= x.date})
    IN  SubSeq(s, 1, n) \o <<x>> \o SubSeq(s, n + 1, Len(s))

RECURSIVE sort_date_desc(_)
sort_date_desc(s) ==
    IF s = <<>> THEN <<>>
    ELSE InsertDesc(s[Len(s)], sort_date_desc(SubSeq(s, 1, Len(s) - 1)))

\* load_symbol_data: None iff the file does not exist
load_symbol_data(symbol) == get(raw, get_symbol_file_path(symbol))

\* a variant of the merge in which a supplied bar replaces the stored bar
\* of its date
combined_data_Replace(existing, data) ==
    IF existing # None
    THEN LET new_dates == DatesOf(data)
             kept == SelectSeq(existing[1].data, LAMBDA d : d.date \notin new_dates)
         IN  sort_date_desc(kept \o data)
    ELSE sort_date_desc(data)

\* save_symbol_data, lines 48-58: the merged list of bars
\* (a loaded file is a non-empty dict, so "if existing" is "is not None")
combined_data(existing, data) ==
    IF existing # None
    THEN LET existing_data == existing[1].data
             existing_dates == DatesOf(existing_data)
             new_data_points == SelectSeq(data, LAMBDA d : d.date \notin existing_dates)
         IN  sort_date_desc(existing_data \o new_data_points)
    ELSE sort_date_desc(data)

\* save_symbol_data, lines 61-68: the structure written to the file
full_data(symbol, symbol_type, category, api_source, now, combined) ==
    [symbol |-> symbol, type |-> symbol_type, category |-> category,
     api_source |-> api_source, last_updated |-> now, data |-> combined]

\* _update_metadata: the new content of update_status.json
update_metadata(md, symbol, status, data_points, now) ==
    put(md, symbol, [last_updated |-> now,
                     last_fetch_status |-> status,
                     data_points |-> data_points])

\* a variant of mark_symbol_failed that drops the error string
mark_symbol_failed_NoReason(md, symbol, error, now) ==
    put(md, symbol, [last_updated |-> now,
                     last_fetch_status |-> <<"failed: ", "">>,
                     data_points |-> 0])

\* mark_symbol_failed: the new content of update_status.json;
\* f"failed: {error}" is the pair of its prefix and the error string
mark_symbol_failed(md, symbol, error, now) ==
    put(md, symbol, [last_updated |-> now,
                     last_fetch_status |-> <<"failed: ", error>>,
                     data_points |-> 0])

\* datetime.utcnow() after the time a call has taken: the clock's ticks are
\* coarse, so two calls may read the same time, and time does not run
\* backwards.  The two reads within one save_symbol_data fall in one tick.
Later(t) == t..Min(t + 1, MaxTime)

\* save_symbol_data as a step: file written, then metadata updated
save_symbol_data(symbol, symbol_type, category, api_source, data) ==
    LET existing == load_symbol_data(symbol)
        combined == combined_data(existing, data)
    IN  \E now \in Later(clock) :
          /\ raw' = put(raw, get_symbol_file_path(symbol),
                         full_data(symbol, symbol_type, category, api_source, now, combined))
          /\ metadata' = update_metadata(metadata, symbol, <<"success">>, Len(combined), now)
          /\ clock' = now

(***************************************************************************)
(* The HTTP data sources (src/src/fetcher.py).  What the remote service    *)
(* answers is an input: the kind of answer and, for "ok", the daily time   *)
(* series it carries (possibly empty).                                     *)
(***************************************************************************)
ResponseKinds == {"ok", "network_error", "unparsable", "error_message",
                  "note", "information"}

\* the time series a data source answers with: keyed by date, so no date
\* occurs twice; in the order of the answer (oldest first)
\* (the later answer restates the bar of date 1 with another value)
ApiLists == { <<>>,
              <<[date |-> 1, close |-> 100]>>,
              <<[date |-> 1, close |-> 105], [date |-> 2, close |-> 105]>> }

Responses == {[kind |-> "ok", data |-> d] : d \in ApiLists}
             \cup {[kind |-> k, data |-> <<>>] : k \in ResponseKinds \ {"ok"}}

\* the outcome of a call: a value, or an exception of a class with str(e)
Return(data) == [kind |-> "data", data |-> data, error |-> ""]
Raise(class, error) == [kind |-> class, data |-> <<>>, error |-> error]

\* AlphaVantageAPI._make_request
make_request(resp) ==
    CASE resp.kind = "network_error" -> Raise("Exception", "Network error")
      [] resp.kind = "unparsable" -> Raise("Exception", "Expecting value")
      [] resp.kind = "error_message" -> Raise("Exception", "API Error")
      [] resp.kind = "note" -> Raise("RateLimitError", "Rate limit hit")
      [] resp.kind = "information" -> Raise("RateLimitError", "Rate limit hit")
      [] OTHER -> Return(resp.data)

\* AlphaVantageAPI.fetch_stock_data / fetch_crypto_data
fetch_time_series(resp) ==
    LET data == make_request(resp)
    IN  IF data.kind # "data" THEN data
        ELSE IF data.data = <<>> THEN Raise("Exception", "No data returned")
        ELSE Return(data.data)

\* AlphaVantageAPI.fetch_data
alpha_fetch_data(symbol, asset_type, resp) ==
    IF asset_type \in {"stock", "etf"} THEN fetch_time_series(resp)
    ELSE IF asset_type = "crypto"
         THEN IF \E i \in 1..Len(symbol) : symbol[i] = "-"
              THEN fetch_time_series(resp)
              ELSE Raise("Exception", "Crypto symbol must be in format XXX-YYY")
    ELSE Raise("Exception", "Asset type not supported by Alpha Vantage")

\* YahooFinanceAPI.fetch_data: every exception is re-raised as Exception
yahoo_fetch_data(symbol, resp) ==
    IF resp.kind = "ok" /\ resp.data # <<>>
    THEN Return(sort_date_desc(resp.data))
    ELSE Raise("Exception", "Yahoo Finance error")

(***************************************************************************)
(* MarketDataFetcher (src/src/fetcher.py).                                 *)
(***************************************************************************)
\* datetime.min
DatetimeMin == -1

\* "failed" in last_status.lower()
contains_failed(status) == status[1] = "failed: "

\* a variant of _get_symbol_priority without the "failed" level
get_symbol_priority_NoFailedLevel(md, ticker) ==
    LET symbol_meta == get(md, ticker.symbol)
    IN  IF symbol_meta = None THEN <<0, DatetimeMin>>
        ELSE <<2, symbol_meta[1].last_updated>>

\* _get_symbol_priority: (priority_level, last_updated)
get_symbol_priority(md, ticker) ==
    LET symbol_meta == get(md, ticker.symbol)
    IN  IF symbol_meta = None THEN <<0, DatetimeMin>>
        ELSE IF contains_failed(symbol_meta[1].last_fetch_status)
             THEN <<1, symbol_meta[1].last_updated>>
        ELSE <<2, symbol_meta[1].last_updated>>

\* tuple comparison of two (priority_level, last_updated) keys
KeyLE(a, b) == a[1] < b[1] \/ (a[1] = b[1] /\ a[2] <= b[2])

\* list.sort(key=...) is stable: x goes behind every element whose key is <= its own
InsertByPriority(md, x, s) ==
    LET n == Cardinality({i \in 1..Len(s) :
                 KeyLE(get_symbol_priority(md, s[i]), get_symbol_priority(md, x))})
    IN  SubSeq(s, 1, n) \o <<x>> \o SubSeq(s, n + 1, Len(s))

\* _get_prioritized_tickers
RECURSIVE get_prioritized_tickers(_, _)
get_prioritized_tickers(md, tickers) ==
    IF tickers = <<>> THEN <<>>
    ELSE InsertByPriority(md, tickers[Len(tickers)],
             get_prioritized_tickers(md, SubSeq(tickers, 1, Len(tickers) - 1)))

\* prioritized[:max_symbols] for max_symbols >= 0
select_batch(order, n) == SubSeq(order, 1, Min(n, Len(order)))

\* fetch_symbol, lines 324-332: the routing to an API
route(ticker, key, resp) ==
    IF ticker.api_source = "yahoo_finance" THEN yahoo_fetch_data(ticker.symbol, resp)
    ELSE IF ticker.api_source = "alpha_vantage"
         THEN IF ~key THEN Raise("Exception", "Alpha Vantage API key not configured")
              ELSE alpha_fetch_data(ticker.symbol, ticker.type, resp)
    ELSE [kind |-> "unknown_source", data |-> <<>>, error |-> ""]

\* fetch_symbol: what it returns ("True", "False") or the exception it lets out
fetch_symbol_result(r) ==
    CASE r.kind = "data" -> "True"
      [] r.kind = "unknown_source" -> "False"
      [] r.kind = "RateLimitError" -> "RateLimitError"
      [] OTHER -> "False"

\* fetch_symbol: the error string handed to mark_symbol_failed, if any
fetch_symbol_marks(r) ==
    CASE r.kind = "RateLimitError" -> Some("rate_limit")
      [] r.kind = "Exception" -> Some(r.error)
      [] OTHER -> None

\* fetch_symbol: its effect on the store
fetch_symbol(ticker, r) ==
    IF r.kind = "data"
    THEN save_symbol_data(ticker.symbol, ticker.type, ticker.category,
                          ticker.api_source, r.data)
    ELSE IF fetch_symbol_marks(r) # None
    THEN \E t \in Later(clock) :
           /\ metadata' = mark_symbol_failed(metadata, ticker.symbol,
                                             fetch_symbol_marks(r)[1], t)
           /\ clock' = t
           /\ UNCHANGED raw
    ELSE UNCHANGED <<clock, metadata, raw>>

\* fetch_batch: "except RateLimitError" is the only handler of the loop body
batch_catches(result) == result = "RateLimitError"

\* a variant of the for loop without the break on RateLimitError
loop_continues_NoBreak(result, i, n) == i < n

\* fetch_batch: the for loop goes on to the next ticker
loop_continues(result, i, n) == result \in {"True", "False"} /\ i < n

\* a variant of line 398 that subtracts the successes only
remaining_in_queue_OfSuccesses(tickers, n_successful, n_failed) ==
    Len(tickers) - n_successful

\* fetch_batch, line 398: the number printed as "Remaining in queue"
remaining_in_queue(tickers, n_successful, n_failed) ==
    Len(tickers) - (n_successful + n_failed)

NoSummary == [successful |-> -1, failed |-> -1, remaining |-> -1,
              rate_limited |-> FALSE]

\* nothing has been handed to the analytics modules
IdleStem == symbol_arg = <<>> /\ safe_symbol = None
IdleIndicators ==
    df = <<>> /\ df2 = <<>> /\ table = <<>> /\ table2 = <<>> /\ stage = "idle"
IdleCalc ==
    /\ technical = <<>> /\ fundamentals = {}
    /\ calc_pc = "idle" /\ calc_symbols = <<>> /\ include_fundamentals = FALSE
    /\ calc_idx = 1 /\ calc_successful = 0 /\ calc_failed = 0
    /\ calc_returned = <<>> /\ calc_results = <<>>
IdleRate ==
    /\ rate_now = 0 /\ last_request_time = <<>> /\ request_log = <<>>
IdleHealth ==
    /\ trailing_pe = <<>> /\ tyx_close = <<>> /\ health_assessment = <<>>
IdleAgg ==
    /\ glob_order = <<>> /\ latest_values = <<>> /\ by_category = <<>>
    /\ performance_rankings = <<>> /\ active_signals = <<>>
    /\ agg_pc = "idle" /\ agg_previous = <<>> /\ agg_raised = FALSE

\* the fetcher, the store and the files before anything has run
InitNoRaw ==
    /\ clock = 0
    /\ metadata = <<>>
    /\ last_save = None
    /\ alpha_vantage = FALSE
    /\ pc = "idle"
    /\ runs = 0
    /\ max_symbols = 0
    /\ ticker_priorities = <<>>
    /\ prioritized = <<>>
    /\ batch = <<>>
    /\ idx = 1
    /\ successful = 0
    /\ failed = 0
    /\ rate_limited = FALSE
    /\ attempted = <<>>
    /\ propagated = FALSE
    /\ summary = NoSummary
    /\ files = <<>>
    /\ gen = 0
    /\ writer = None
    /\ seen = None

InitFetch == InitNoRaw /\ raw = <<>>

Init ==
    /\ InitFetch
    /\ IdleStem
    /\ IdleIndicators
    /\ IdleCalc
    /\ IdleRate
    /\ IdleHealth
    /\ IdleAgg

\* MarketDataFetcher() and fetch_batch up to the for loop
StartBatch ==
    /\ pc = "idle"
    /\ runs < MaxRuns
    /\ \E n \in 0..MaxBatch, key \in BOOLEAN :
         LET order == get_prioritized_tickers(metadata, load_tickers)
         IN  /\ max_symbols' = n
             /\ alpha_vantage' = key
             /\ ticker_priorities' =
                    [i \in 1..Len(order) |->
                        [symbol |-> order[i].symbol,
                         level |-> get_symbol_priority(metadata, order[i])[1],
                         last_updated |-> get_symbol_priority(metadata, order[i])[2]]]
             /\ prioritized' = order
             /\ batch' = select_batch(order, n)
             /\ pc' = IF select_batch(order, n) = <<>> THEN "summary" ELSE "loop"
    /\ idx' = 1
    /\ successful' = 0
    /\ failed' = 0
    /\ rate_limited' = FALSE
    /\ attempted' = <<>>
    /\ UNCHANGED <<storeVars, runs, propagated, summary, writeVars, laterVars>>

\* one iteration of the for loop of fetch_batch: fetch_symbol(batch[idx])
FetchStep ==
    /\ pc = "loop"
    /\ \E resp \in Responses :
         LET ticker == batch[idx]
             r == route(ticker, alpha_vantage, resp)
             result == fetch_symbol_result(r)
         IN  /\ fetch_symbol(ticker, r)
             /\ attempted' = Append(attempted, [symbol |-> ticker.symbol, result |-> result,
                                                 kind |-> r.kind, error |-> r.error,
                                                 data |-> r.data])
             /\ successful' = IF result = "True" THEN successful + 1 ELSE successful
             /\ failed' = IF result = "False" THEN failed + 1 ELSE failed
             /\ rate_limited' = (rate_limited \/ (result = "RateLimitError" /\ batch_catches(result)))
             /\ propagated' = (result \notin {"True", "False"} /\ ~batch_catches(result))
             /\ IF result \notin {"True", "False"} /\ ~batch_catches(result)
                THEN pc' = "raised" /\ idx' = idx
                ELSE IF loop_continues(result, idx, Len(batch))
                THEN pc' = "loop" /\ idx' = idx + 1
                ELSE pc' = "summary" /\ idx' = idx
    /\ UNCHANGED <<last_save, alpha_vantage, runs, max_symbols, ticker_priorities,
                   prioritized, batch, summary, writeVars, laterVars>>

\* fetch_batch, lines 393-401: the summary; the run is over
PrintSummary ==
    /\ pc = "summary"
    /\ summary' = [successful |-> successful, failed |-> failed,
                   remaining |-> remaining_in_queue(load_tickers, successful, failed),
                   rate_limited |-> rate_limited]
    /\ pc' = "idle"
    /\ runs' = runs + 1
    /\ UNCHANGED <<storeVars, alpha_vantage, max_symbols, ticker_priorities, prioritized,
                   batch, idx, successful, failed, rate_limited, attempted, propagated,
                   writeVars, laterVars>>

Next == StartBatch \/ FetchStep \/ PrintSummary

Spec == Init /\ [][Next]_vars

(***************************************************************************)
(* The raw data store on its own: save_symbol_data called directly, as     *)
(* test_setup.py does, with any list of bars.                              *)
(***************************************************************************)
StoreCalls ==
    { [symbol |-> VIX, type |-> "index", category |-> "volatility",
       api_source |-> "yahoo_finance"],
      [symbol |-> VIX, type |-> "stock", category |-> "test", api_source |-> "test"] }

BarsOf(data) == {data[i] : i \in 1..Len(data)}

InitStore ==
    /\ Init
    /\ clock = 0

\* storage.save_symbol_data(symbol, symbol_type, category, api_source, data);
\* last_save keeps what the call was given and what was stored before it
StoreSave ==
    /\ \E call \in StoreCalls, data \in BarLists :
         /\ save_symbol_data(call.symbol, call.type, call.category, call.api_source, data)
         /\ last_save' = Some([symbol |-> call.symbol, type |-> call.type,
                               category |-> call.category,
                               api_source |-> call.api_source,
                               supplied |-> BarsOf(data),
                               existing |-> IF load_symbol_data(call.symbol) = None THEN {}
                                            ELSE BarsOf(load_symbol_data(call.symbol)[1].data)])
    /\ UNCHANGED <<fetchVars, writeVars, laterVars>>

NextStore == StoreSave

SpecStore == InitStore /\ [][NextStore]_vars

(***************************************************************************)
(* Writing the JSON files, step by step, beside a reader (the dashboard,   *)
(* a process of its own).  A file's text is the sequence of the pieces     *)
(* written so far; the pieces of generation g are all g.                   *)
(*   plain:   DataStorage._write_json (storage.py) and the write at the    *)
(*            end of save_analytics (utils/data_helpers.py)                *)
(*   atomic:  AnalyticsAggregator._save_atomic (analytics/aggregator.py)   *)
(***************************************************************************)
\* a path is its stem and its suffix
PlainPaths == { <<"data/metadata/update_status", ".json">>,
                <<"data/raw/VIX", ".json">>,
                <<"data/analytics/technical/VIX", ".json">> }
AtomicPaths == { <<"data/analytics/aggregated/latest_values", ".json">>,
                 <<"data/analytics/aggregated/by_category", ".json">>,
                 <<"data/analytics/aggregated/performance_rankings", ".json">>,
                 <<"data/analytics/aggregated/active_signals", ".json">> }

\* the complete JSON text of generation g
FullText(g) == [i \in 1..Chunks |-> g]
IsComplete(text) == \E g \in 1..gen : text = FullText(g)

\* Path.with_suffix('.tmp')
with_suffix_tmp(file_path) == <<file_path[1], ".tmp">>

\* a variant of _save_atomic that opens the target itself
temp_path_IsTarget(file_path) == file_path

\* _save_atomic, line 22: temp_path
temp_path(file_path) == with_suffix_tmp(file_path)

\* the file the write in progress has open
OpenFile == IF writer[1].op = "atomic" THEN temp_path(writer[1].path) ELSE writer[1].path

remove(d, key) == [k \in DOMAIN d \ {key} |-> d[k]]

\* open(path, 'w') of _write_json / save_analytics / _save_atomic: the file
\* is created or truncated
Open ==
    /\ IF writer = None THEN TRUE ELSE writer[1].at \in {"done", "raised", "killed"}
    /\ gen < MaxGen
    /\ \E op \in {"plain", "atomic"} :
       \E path \in (IF op = "plain" THEN PlainPaths ELSE AtomicPaths) :
         /\ writer' = Some([op |-> op, path |-> path, gen |-> gen + 1, at |-> "dump",
                            before |-> get(files, path)])
         /\ files' = put(files, IF op = "atomic" THEN temp_path(path) ELSE path, <<>>)
    /\ gen' = gen + 1
    /\ UNCHANGED <<storeVars, fetchVars, laterVars, seen>>

\* json.dump(data, f): the next piece of the text reaches the file
Dump ==
    /\ writer # None /\ writer[1].at = "dump"
    /\ Len(files[OpenFile]) < Chunks
    /\ files' = put(files, OpenFile, Append(files[OpenFile], writer[1].gen))
    /\ UNCHANGED <<storeVars, fetchVars, laterVars, gen, writer, seen>>

\* the end of the with block: the file is closed; a plain write is over
Close ==
    /\ writer # None /\ writer[1].at = "dump"
    /\ Len(files[OpenFile]) = Chunks
    /\ writer' = Some([writer[1] EXCEPT !.at = IF writer[1].op = "atomic"
                                               THEN "replace" ELSE "done"])
    /\ UNCHANGED <<storeVars, fetchVars, laterVars, files, gen, seen>>

\* _save_atomic, line 26: temp_path.replace(file_path), one rename
Replace ==
    /\ writer # None /\ writer[1].at = "replace"
    /\ files' = put(remove(files, temp_path(writer[1].path)), writer[1].path,
                    files[temp_path(writer[1].path)])
    /\ writer' = Some([writer[1] EXCEPT !.at = "done"])
    /\ UNCHANGED <<storeVars, fetchVars, laterVars, gen, seen>>

\* json.dump or the rename raises an Exception.  _save_atomic, lines 27-30:
\* the temp file is unlinked if it exists and the exception is raised again;
\* a plain write has no handler and leaves the file as it is.
Fail ==
    /\ writer # None /\ writer[1].at \in {"dump", "replace"}
    /\ files' = IF writer[1].op = "atomic" /\ temp_path(writer[1].path) \in DOMAIN files
                THEN remove(files, temp_path(writer[1].path))
                ELSE files
    /\ writer' = Some([writer[1] EXCEPT !.at = "raised"])
    /\ UNCHANGED <<storeVars, fetchVars, laterVars, gen, seen>>

\* the writing process is killed: nothing more is written, nothing is cleaned up
Kill ==
    /\ writer # None /\ writer[1].at \in {"dump", "replace"}
    /\ writer' = Some([writer[1] EXCEPT !.at = "killed"])
    /\ UNCHANGED <<storeVars, fetchVars, laterVars, files, gen, seen>>

\* the dashboard reads a data file: it gets the text that is there now
Read ==
    /\ \E path \in PlainPaths \cup AtomicPaths :
         seen' = Some([path |-> path, text |-> get(files, path)])
    /\ UNCHANGED <<storeVars, fetchVars, laterVars, files, gen, writer>>

NextWrite == Open \/ Dump \/ Close \/ Replace \/ Fail \/ Kill \/ Read

SpecWrite == Init /\ [][NextWrite]_vars

(***************************************************************************)
(* Properties of the fetch scheduler, checked under Spec.                  *)
(***************************************************************************)
ConfigIndex(symbol) ==
    CHOOSE i \in 1..Len(load_tickers) : load_tickers[i].symbol = symbol

NeverFetched(md, symbol) == symbol \notin DOMAIN md
FailedLast(md, symbol) ==
    symbol \in DOMAIN md /\ md[symbol].last_fetch_status[1] = "failed: "
SameLevel(md, a, b) ==
    /\ NeverFetched(md, a) <=> NeverFetched(md, b)
    /\ FailedLast(md, a) <=> FailedLast(md, b)

\* order is the enabled tickers in the order the scheduler promises for metadata md
PriorityOrder(order, md) ==
    /\ Len(order) = Len(load_tickers)
    /\ {order[i] : i \in 1..Len(order)} = {load_tickers[i] : i \in 1..Len(load_tickers)}
    /\ \A i, j \in 1..Len(order) : i < j =>
         LET a == order[i].symbol
             b == order[j].symbol
         IN  /\ NeverFetched(md, b) => NeverFetched(md, a)
             /\ (FailedLast(md, b) /\ ~NeverFetched(md, a)) => FailedLast(md, a)
             /\ (SameLevel(md, a, b) /\ ~NeverFetched(md, a)) =>
                    md[a].last_updated <= md[b].last_updated
             /\ (SameLevel(md, a, b) /\
                    (NeverFetched(md, a) \/ md[a].last_updated = md[b].last_updated)) =>
                    ConfigIndex(a) < ConfigIndex(b)

AttemptedSymbols == [i \in 1..Len(attempted) |-> attempted[i].symbol]
FirstOfOrder == [i \in 1..Min(max_symbols, Len(load_tickers)) |-> prioritized[i].symbol]
IsPrefix(s, t) == Len(s) <= Len(t) /\ s = SubSeq(t, 1, Len(s))
RateLimitAt(i) == attempted[i].result = "RateLimitError"

\* While nothing has been attempted in a run the metadata is still the one
\* the order was computed from.
OrderIsPrioritized ==
    (pc # "idle" /\ attempted = <<>>) => PriorityOrder(prioritized, metadata)

\* C1 as stated: when the loop of a run is over, the symbols attempted are
\* exactly the first min(N, enabled) symbols of the priority order, and that
\* order puts never-fetched symbols first, then failed ones, then the others,
\* each level by ascending last_updated, ties in config-file order.
C1_AttemptsExactlyFirstN ==
    /\ OrderIsPrioritized
    /\ pc = "summary" => AttemptedSymbols = FirstOfOrder

\* C1 amended: the batch is the first min(N, enabled) symbols of the priority
\* order (same order properties); the symbols attempted are, in order, all of
\* the batch, or, when a fetch raised RateLimitError, the batch up to and
\* including the rate-limited symbol.
C1_AttemptsFirstNUntilRateLimit ==
    /\ OrderIsPrioritized
    /\ pc # "idle" =>
         /\ [i \in 1..Len(batch) |-> batch[i].symbol] = FirstOfOrder
         /\ IsPrefix(AttemptedSymbols, FirstOfOrder)
    /\ pc = "summary" =>
         IF rate_limited
         THEN attempted # <<>> /\ RateLimitAt(Len(attempted))
         ELSE AttemptedSymbols = FirstOfOrder

\* a run cut to 2 of 3 enabled symbols, whose order (never fetched, failed,
\* fetched) differs from the config-file order, has attempted its batch
C1_Witness ==
    /\ pc = "summary" /\ ~rate_limited
    /\ max_symbols = 2 /\ AttemptedSymbols = <<DGS10, NVDA>>
    /\ [i \in 1..3 |-> ticker_priorities[i].level] = <<0, 1, 2>>
    /\ ticker_priorities[2].last_updated > ticker_priorities[3].last_updated

\* C2: once a fetch of the run has raised RateLimitError it is the last
\* attempt of the run, nothing escapes fetch_batch, the run goes to its
\* summary, and until the next run starts neither a raw file nor the metadata
\* changes.
C2_RateLimitStopsBatch ==
    /\ [](\A i \in 1..Len(attempted) : RateLimitAt(i) =>
            /\ i = Len(attempted)
            /\ ~propagated
            /\ pc \in {"summary", "idle"}
            /\ rate_limited
            /\ pc = "idle" => (summary.rate_limited /\ summary.successful = successful
                               /\ summary.failed = failed))
    /\ [][(\E i \in 1..Len(attempted) : RateLimitAt(i)) =>
            /\ raw' = raw
            /\ metadata' = metadata
            /\ attempted' \in {attempted, <<>>}]_vars

\* a rate limit on the first symbol of a batch of three; the summary is printed
C2_Witness ==
    /\ pc = "idle" /\ Len(batch) = 3
    /\ Len(attempted) = 1 /\ RateLimitAt(1)
    /\ summary.rate_limited

CountResult(result) == Cardinality({i \in 1..Len(attempted) : attempted[i].result = result})

\* C3 as stated: the summary of a run stopped by a rate limit reports as
\* remaining the size of the batch minus the successes and the failures.
C3_RemainingOfBatch ==
    (pc = "idle" /\ summary.rate_limited) =>
        /\ summary.successful = CountResult("True")
        /\ summary.failed = CountResult("False")
        /\ summary.remaining = Len(batch) - summary.successful - summary.failed

\* C3 amended: the summary reports as remaining the number of enabled tickers
\* minus the successes and the failures of the run.
C3_RemainingOfEnabled ==
    (pc = "idle" /\ summary.rate_limited) =>
        /\ summary.successful = CountResult("True")
        /\ summary.failed = CountResult("False")
        /\ summary.remaining = Len(load_tickers) - summary.successful - summary.failed

\* a rate limit on the 2nd symbol of a 2-symbol batch, the first one saved,
\* with 3 tickers enabled
C3_Witness ==
    /\ pc = "idle" /\ summary.rate_limited
    /\ Len(batch) = 2 /\ Len(attempted) = 2 /\ RateLimitAt(2)
    /\ summary.successful = 1 /\ summary.failed = 0 /\ summary.remaining = 2

\* C4: a fetch that raised an error other than RateLimitError left the symbol
\* marked 'failed: <error string>', returned False without letting the error
\* out, is counted as failed, and the loop went on to the next symbol of the
\* batch.
C4_ErrorIsRecordedAndSkipped ==
    /\ failed = CountResult("False")
    /\ \A i \in 1..Len(attempted) : attempted[i].kind = "Exception" =>
         LET s == attempted[i].symbol
         IN  /\ s \in DOMAIN metadata
             /\ metadata[s].last_fetch_status = <<"failed: ", attempted[i].error>>
             /\ attempted[i].result = "False"
             /\ ~propagated /\ pc # "raised"
             /\ i < Len(batch) => (Len(attempted) > i \/ (pc = "loop" /\ idx = i + 1))

\* a network error on one symbol, after which the next symbol was attempted
C4_Witness ==
    \E i \in 1..Len(attempted) :
        /\ attempted[i].kind = "Exception" /\ attempted[i].error = "Network error"
        /\ Len(attempted) > i
        /\ failed >= 1

\* C5: every attempt of fetch_symbol leaves the symbol's metadata entry
\* rewritten with the current time and a status 'success' or 'failed: ...'.
C5_EveryAttemptRecorded ==
    [][Len(attempted') = Len(attempted) + 1 =>
         LET s == attempted'[Len(attempted')].symbol
         IN  /\ s \in DOMAIN metadata'
             /\ metadata'[s].last_updated = clock'
             /\ metadata'[s].last_fetch_status[1] \in {"success", "failed: "}]_vars

(***************************************************************************)
(* Properties of the raw data store.                                       *)
(***************************************************************************)
BarsOfDate(data, d) == SelectSeq(data, LAMBDA b : b.date = d)

\* C6: in every raw file no two bars have the same date.
C6_DatesUnique ==
    \A stem \in DOMAIN raw :
        \A i, j \in 1..Len(raw[stem].data) :
            raw[stem].data[i].date = raw[stem].data[j].date => i = j

\* C7: a save keeps every file, and in it every stored bar with its values:
\* for each date stored before, the bars of that date are the same after, so
\* a supplied bar of a stored date is dropped and the stored dates only grow.
C7_AppendOnly ==
    [][\A stem \in DOMAIN raw :
         /\ stem \in DOMAIN raw'
         /\ DatesOf(raw[stem].data) \subseteq DatesOf(raw'[stem].data)
         /\ \A d \in DatesOf(raw[stem].data) :
                BarsOfDate(raw'[stem].data, d) = BarsOfDate(raw[stem].data, d)]_vars

\* a second successful fetch supplied another bar for a stored date, together
\* with a new date: the stored bar is still there, the supplied one is not
C7_Witness ==
    \E i \in 1..Len(attempted) :
        LET stem == get_symbol_file_path(attempted[i].symbol)
        IN  /\ attempted[i].result = "True"
            /\ [date |-> 1, close |-> 105] \in BarsOf(attempted[i].data)
            /\ stem \in DOMAIN raw
            /\ [date |-> 1, close |-> 100] \in BarsOf(raw[stem].data)
            /\ [date |-> 1, close |-> 105] \notin BarsOf(raw[stem].data)
            /\ [date |-> 2, close |-> 105] \in BarsOf(raw[stem].data)

\* C8: after a save, loading the symbol gives the supplied symbol, type,
\* category and api_source, and as bars the date-deduplicated union of the
\* bars stored before and the bars supplied, newest first: one bar for each
\* date of the two, each taken from them, in strictly descending date order.
C8_LoadIsDedupUnion ==
    last_save # None =>
        LET call == last_save[1]
            loaded == load_symbol_data(call.symbol)
        IN  /\ loaded # None
            /\ loaded[1].symbol = call.symbol
            /\ loaded[1].type = call.type
            /\ loaded[1].category = call.category
            /\ loaded[1].api_source = call.api_source
            /\ BarsOf(loaded[1].data) \subseteq call.existing \cup call.supplied
            /\ DatesOf(loaded[1].data) =
                   {b.date : b \in call.existing \cup call.supplied}
            /\ \A i, j \in 1..Len(loaded[1].data) :
                   i < j => loaded[1].data[i].date > loaded[1].data[j].date

(***************************************************************************)
(* Properties of the file writes, checked under SpecWrite.                 *)
(***************************************************************************)
\* a reader of path saw no file (before the first write) or a complete text
SawWholeFile(read) == read.text = None \/ IsComplete(read.text[1])

\* C9: whatever the reader got from a raw file, update_status.json or a
\* technical analytics file is a complete generation of it, never an empty or
\* partly written text, also after the writer was interrupted.
C9_PlainWritesAtomic ==
    (seen # None /\ seen[1].path \in PlainPaths) => SawWholeFile(seen[1])

\* C10: whatever the reader got from an aggregate file is a complete
\* generation; while _save_atomic is writing, the target holds what it held
\* before the call; when the write failed the temp file is gone, the target
\* unchanged and the exception raised; when it succeeded the target holds the
\* new generation and no temp file is left.
C10_SaveAtomic ==
    /\ (seen # None /\ seen[1].path \in AtomicPaths) => SawWholeFile(seen[1])
    /\ \A path \in AtomicPaths : path \in DOMAIN files => IsComplete(files[path])
    /\ (writer # None /\ writer[1].op = "atomic") =>
         LET w == writer[1]
         IN  /\ w.at \in {"dump", "replace", "raised", "killed"} =>
                    get(files, w.path) = w.before
             /\ w.at = "raised" => with_suffix_tmp(w.path) \notin DOMAIN files
             /\ w.at = "done" =>
                    /\ get(files, w.path) = Some(FullText(w.gen))
                    /\ with_suffix_tmp(w.path) \notin DOMAIN files

\* the reader read an aggregate file while its second generation was being
\* written to the temp file, and got the first generation
C10_Witness ==
    /\ writer # None /\ writer[1].op = "atomic" /\ writer[1].at = "dump"
    /\ writer[1].gen = 2
    /\ files[with_suffix_tmp(writer[1].path)] = <<2>>
    /\ seen = Some([path |-> writer[1].path, text |-> Some(FullText(1))])

(***************************************************************************)
(* File names: every module that reads or writes a per-symbol file         *)
(* computes safe_symbol from the symbol on its own.                        *)
(***************************************************************************)
SPY == <<"S", "P", "Y">>

\* the characters of the symbols tried: the two the rule names, the one it
\* produces, and a letter
SymChars == {"-", "^", "_", "A"}
SymbolStrings == UNION {[1..n -> SymChars] : n \in 0..MaxSymLen}
                 \cup {BTC_USD, VIX, SPY, NVDA}

\* load_symbol_raw_data, line 26
load_symbol_raw_data_safe_symbol(s) == replace(replace(s, "-", <<"_">>), "^", <<>>)

\* save_analytics, line 92
save_analytics_safe_symbol(s) == replace(replace(s, "-", <<"_">>), "^", <<>>)

\* a variant of the aggregator's loader that keeps the '^'
load_technical_data_safe_symbol_KeepCaret(s) == replace(s, "-", <<"_">>)

\* AnalyticsAggregator.load_technical_data, line 34
load_technical_data_safe_symbol(s) == replace(replace(s, "-", <<"_">>), "^", <<>>)

\* FundamentalsCalculator.save_fundamentals, line 215
save_fundamentals_safe_symbol(s) == replace(replace(s, "-", <<"_">>), "^", <<>>)

InitStem ==
    /\ InitFetch
    /\ IdleIndicators
    /\ IdleCalc
    /\ IdleRate
    /\ IdleHealth
    /\ IdleAgg
    /\ symbol_arg \in SymbolStrings
    /\ safe_symbol = None

\* each module computes the stem of its file for symbol_arg
Sanitize ==
    /\ safe_symbol = None
    /\ safe_symbol' = Some([raw |-> get_symbol_file_path(symbol_arg),
                            raw_loader |-> load_symbol_raw_data_safe_symbol(symbol_arg),
                            analytics |-> save_analytics_safe_symbol(symbol_arg),
                            technical |-> load_technical_data_safe_symbol(symbol_arg),
                            fundamentals |-> save_fundamentals_safe_symbol(symbol_arg)])
    /\ UNCHANGED <<storeVars, fetchVars, writeVars, rateVars, healthVars, symbol_arg, indicatorVars, calcVars, aggVars>>

NextStem == Sanitize

SpecStem == InitStem /\ [][NextStem]_vars

\* the stem the rule prescribes: the characters of s other than '^', in
\* their order, each '-' turned into '_'
Sanitized(s) ==
    LET kept == SelectSeq(s, LAMBDA c : c # "^")
    IN  [i \in 1..Len(kept) |-> IF kept[i] = "-" THEN "_" ELSE kept[i]]

\* C11: the stem every module computes is the symbol with each '-' replaced
\* by '_' and each '^' removed, nothing else changed (BTC-USD gives BTC_USD,
\* ^VIX gives VIX, SPY gives SPY), and the five modules compute the same stem.
C11_SameSanitizedStem ==
    safe_symbol # None =>
        LET st == safe_symbol[1]
        IN  /\ st.raw = Sanitized(symbol_arg)
            /\ st.raw_loader = st.raw
            /\ st.analytics = st.raw
            /\ st.technical = st.raw
            /\ st.fundamentals = st.raw
            /\ symbol_arg = BTC_USD => st.raw = <<"B", "T", "C", "_", "U", "S", "D">>
            /\ symbol_arg = VIX => st.raw = <<"V", "I", "X">>
            /\ symbol_arg = SPY => st.raw = SPY

\* a symbol with both special characters has gone through the five modules
C11_Witness ==
    /\ symbol_arg = <<"^", "A", "-">>
    /\ safe_symbol # None
    /\ safe_symbol[1].technical = <<"A", "_">>
    /\ safe_symbol[1].fundamentals = <<"A", "_">>

(***************************************************************************)
(* TechnicalIndicators (src/src/analytics/technical_indicators.py).        *)
(* A DataFrame is the sequence of its rows in index order, a row the       *)
(* record of its columns.  A cell is NaN or a rational number num/den with *)
(* den > 0, so that means and percentages are exact.  Of the ta library's  *)
(* indicators the model has the ones that are sums over rows (SMA, the     *)
(* Bollinger middle band, OBV); the exponentially smoothed ones (EMA, RSI, *)
(* MACD, ATR, ADX), the other bands, the stochastic oscillator and the     *)
(* columns computed from them are left out.                                *)
(***************************************************************************)
NaN == None
Rat(n, d) == Some([num |-> n, den |-> d])

\* comparisons of two cells; any comparison with NaN is False
gt(a, b) == a # NaN /\ b # NaN /\ a[1].num * b[1].den > b[1].num * a[1].den
lt(a, b) == a # NaN /\ b # NaN /\ a[1].num * b[1].den < b[1].num * a[1].den
ge(a, b) == a # NaN /\ b # NaN /\ a[1].num * b[1].den >= b[1].num * a[1].den
le(a, b) == a # NaN /\ b # NaN /\ a[1].num * b[1].den <= b[1].num * a[1].den

\* frame[name]: a column as the sequence of its cells
Column(frame, name) == [i \in 1..Len(frame) |-> frame[i][name]]

\* a column of the raw data as cells
Cells(ints) == [i \in 1..Len(ints) |-> Rat(ints[i], 1)]

\* Series.shift(k): row i gets the cell of row i - k
shift(col, k) ==
    [i \in 1..Len(col) |-> IF i - k >= 1 /\ i - k <= Len(col) THEN col[i - k] ELSE NaN]

\* the sum of the integers ints[lo..hi], by halves
RECURSIVE SumOf(_, _, _)
SumOf(ints, lo, hi) ==
    IF lo > hi THEN 0
    ELSE IF lo = hi THEN ints[lo]
    ELSE SumOf(ints, lo, (lo + hi) \div 2) + SumOf(ints, (lo + hi) \div 2 + 1, hi)

\* ta SMAIndicator(close, window).sma_indicator():
\* close.rolling(window, min_periods=window).mean()
SMAIndicator(ints, window) ==
    [i \in 1..Len(ints) |->
        IF i >= window THEN Rat(SumOf(ints, i - window + 1, i), window) ELSE NaN]

\* ta OnBalanceVolumeIndicator(close, volume).on_balance_volume(): the
\* running sum of the volume, counted negative on the rows whose close is
\* below the close of the row before
on_balance_volume(close, volume) ==
    LET signed == SubSeq([i \in 1..Len(close) |->
                             IF i > 1 /\ close[i] < close[i - 1] THEN 0 - volume[i]
                             ELSE volume[i]], 1, Len(close))
    IN  [i \in 1..Len(close) |-> SumOf(signed, 1, i)]

\* 'name' in result.columns
has_column(frame, name) == frame # <<>> /\ name \in DOMAIN frame[1]

\* detect_crossovers, lines 197-199
sma_position(sma_50, sma_200) ==
    [i \in 1..Len(sma_50) |->
        IF lt(sma_50[i], sma_200[i]) THEN "death"
        ELSE IF gt(sma_50[i], sma_200[i]) THEN "golden"
        ELSE "neutral"]

\* detect_crossovers, lines 202-208
recent_golden_cross(sma_50, sma_200) ==
    [i \in 1..Len(sma_50) |->
        gt(sma_50[i], sma_200[i]) /\ le(shift(sma_50, 5)[i], shift(sma_200, 5)[i])]
recent_death_cross(sma_50, sma_200) ==
    [i \in 1..Len(sma_50) |->
        lt(sma_50[i], sma_200[i]) /\ ge(shift(sma_50, 5)[i], shift(sma_200, 5)[i])]

\* detect_crossovers (the SMA part)
detect_crossovers(frame) ==
    IF has_column(frame, "sma_50") /\ has_column(frame, "sma_200")
    THEN LET sma_50 == Column(frame, "sma_50")
             sma_200 == Column(frame, "sma_200")
             position == sma_position(sma_50, sma_200)
             recent_golden == recent_golden_cross(sma_50, sma_200)
             recent_death == recent_death_cross(sma_50, sma_200)
         IN  [i \in 1..Len(frame) |->
                frame[i] @@ [sma_position |-> position[i],
                             recent_golden_cross |-> recent_golden[i],
                             recent_death_cross |-> recent_death[i]]]
    ELSE frame

\* a variant of line 33 with the window of line 32
result_sma_200_ShortWindow(close) == SMAIndicator(close, 50)

\* calculate_all, line 33
result_sma_200(close) == SMAIndicator(close, 200)

\* TechnicalIndicators.calculate_all
calculate_all(frame) ==
    LET close == Column(frame, "close")
        volume == Column(frame, "volume")
        c_sma_20 == SMAIndicator(close, 20)
        c_sma_50 == SMAIndicator(close, 50)
        c_sma_200 == result_sma_200(close)
        c_volume_sma_20 == SMAIndicator(volume, 20)
        c_obv == on_balance_volume(close, volume)
        with_indicators ==
            [i \in 1..Len(frame) |->
                frame[i] @@ [sma_20 |-> c_sma_20[i],
                             sma_50 |-> c_sma_50[i],
                             sma_200 |-> c_sma_200[i],
                             bb_middle |-> c_sma_20[i],
                             volume_sma_20 |-> c_volume_sma_20[i],
                             obv |-> Rat(c_obv[i], 1)]]
    IN  detect_crossovers(SubSeq(with_indicators, 1, Len(frame)))

\* a variant of lines 112-115 without the comparison of the row before
golden_cross_LevelTriggered(sma_50, sma_200) ==
    [i \in 1..Len(sma_50) |-> gt(sma_50[i], sma_200[i])]

\* calculate_custom_signals, lines 112-115
golden_cross(sma_50, sma_200) ==
    [i \in 1..Len(sma_50) |->
        gt(sma_50[i], sma_200[i]) /\ le(shift(sma_50, 1)[i], shift(sma_200, 1)[i])]

\* calculate_custom_signals, lines 116-119
death_cross(sma_50, sma_200) ==
    [i \in 1..Len(sma_50) |->
        lt(sma_50[i], sma_200[i]) /\ ge(shift(sma_50, 1)[i], shift(sma_200, 1)[i])]

\* TechnicalIndicators.calculate_custom_signals (without the RSI, MACD and
\* ATR signals)
calculate_custom_signals(frame) ==
    LET close == Cells(Column(frame, "close"))
        crosses == has_column(frame, "sma_50") /\ has_column(frame, "sma_200")
        golden == golden_cross(Column(frame, "sma_50"), Column(frame, "sma_200"))
        death == death_cross(Column(frame, "sma_50"), Column(frame, "sma_200"))
    IN  [i \in 1..Len(frame) |->
            frame[i]
            @@ (IF crosses
                THEN [golden_cross |-> golden[i], death_cross |-> death[i]]
                ELSE <<>>)
            @@ (IF has_column(frame, "sma_20")
                THEN [price_above_sma_20 |-> gt(close[i], frame[i].sma_20)] ELSE <<>>)
            @@ (IF has_column(frame, "sma_50")
                THEN [price_above_sma_50 |-> gt(close[i], frame[i].sma_50)] ELSE <<>>)
            @@ (IF has_column(frame, "sma_200")
                THEN [price_above_sma_200 |-> gt(close[i], frame[i].sma_200)] ELSE <<>>)]

\* a variant of pct_change that looks at the row periods ahead
pct_change_Ahead(close, periods) ==
    [i \in 1..Len(close) |->
        IF i + periods <= Len(close)
        THEN Rat((close[i + periods] - close[i]) * 100, close[i])
        ELSE NaN]

\* result['close'].pct_change(periods=periods) * 100, for positive closes
pct_change(close, periods) ==
    [i \in 1..Len(close) |->
        IF i - periods >= 1
        THEN Rat((close[i] - close[i - periods]) * 100, close[i - periods])
        ELSE NaN]

\* Series.rolling(window=window).std(): NaN unless the window holds window
\* numbers; the standard deviation is kept as the window it is taken of
rolling_std(col, window) ==
    [i \in 1..Len(col) |->
        IF i >= window /\ \A j \in (i - window + 1)..i : col[j] # NaN
        THEN Some([std_of |-> SubSeq(col, i - window + 1, i)])
        ELSE NaN]

\* TechnicalIndicators.calculate_momentum_metrics
calculate_momentum_metrics(frame) ==
    LET close == Column(frame, "close")
        c_roc_1d == SubSeq(pct_change(close, 1), 1, Len(frame))
        c_roc_5d == pct_change(close, 5)
        c_roc_20d == pct_change(close, 20)
        c_volatility_20d == rolling_std(c_roc_1d, 20)
    IN  [i \in 1..Len(frame) |->
            frame[i] @@ [roc_1d |-> c_roc_1d[i],
                         roc_5d |-> c_roc_5d[i],
                         roc_20d |-> c_roc_20d[i],
                         momentum_10 |-> IF i > 10 THEN Rat(close[i] - close[i - 10], 1)
                                         ELSE NaN,
                         volatility_20d |-> c_volatility_20d[i]]]

(***************************************************************************)
(* The indicator pipeline of AnalyticsCalculator.calculate_for_symbol on   *)
(* two series: calculate_all, calculate_custom_signals,                    *)
(* calculate_momentum_metrics.                                             *)
(***************************************************************************)
\* the bar of date i with close c
Bar(i, c) == [date |-> i, open |-> c, high |-> c + 1, low |-> c - 1, close |-> c,
              volume |-> 1000 + c]

\* the closes of the last two bars of a series; the bars before close at 10,
\* so that the averages cross on the last bars or do not
TailCloses == {1, 10, 11}
Tails == [1..2 -> TailCloses]

\* the ascending series of n bars that ends with the closes of tail
Series(n, tail) ==
    [i \in 1..n |-> Bar(i, IF i > n - Len(tail) THEN tail[i - (n - Len(tail))] ELSE 10)]

\* series shorter than the longest window, as long as it, and longer
Lengths == {51, 200} \cup {200 + k : k \in 1..MaxExtra}

InputSeries == {Series(n, tail) : n \in Lengths, tail \in Tails}

\* the second series: frame with another close on its last bar, or on its
\* last bar but one, or without its last bar
Variants(frame) ==
    LET n == Len(frame)
        a == frame[n - 1].close
        b == frame[n].close
    IN  {Series(n, <<a, c>>) : c \in TailCloses \ {b}}
        \cup {Series(n, <<c, b>>) : c \in TailCloses \ {a}}
        \cup {SubSeq(frame, 1, n - 1)}

InitIndicators ==
    /\ InitFetch
    /\ IdleStem
    /\ IdleCalc
    /\ IdleRate
    /\ IdleHealth
    /\ IdleAgg
    /\ df \in InputSeries
    /\ df2 \in Variants(df)
    /\ table = df
    /\ table2 = df2
    /\ stage = "loaded"

\* calculate_for_symbol, line 53
CalculateAll ==
    /\ stage = "loaded"
    /\ table' = calculate_all(table)
    /\ table2' = calculate_all(table2)
    /\ stage' = "indicators"
    /\ UNCHANGED <<storeVars, fetchVars, writeVars, rateVars, healthVars, stemVars, calcVars, aggVars, df, df2>>

\* calculate_for_symbol, line 56
CalculateCustomSignals ==
    /\ stage = "indicators"
    /\ table' = calculate_custom_signals(table)
    /\ table2' = calculate_custom_signals(table2)
    /\ stage' = "signals"
    /\ UNCHANGED <<storeVars, fetchVars, writeVars, rateVars, healthVars, stemVars, calcVars, aggVars, df, df2>>

\* calculate_for_symbol, line 59
CalculateMomentumMetrics ==
    /\ stage = "signals"
    /\ table' = calculate_momentum_metrics(table)
    /\ table2' = calculate_momentum_metrics(table2)
    /\ stage' = "complete"
    /\ UNCHANGED <<storeVars, fetchVars, writeVars, rateVars, healthVars, stemVars, calcVars, aggVars, df, df2>>

NextIndicators == CalculateAll \/ CalculateCustomSignals \/ CalculateMomentumMetrics

SpecIndicators == InitIndicators /\ [][NextIndicators]_vars

\* sma_50[i] and sma_200[i] of a table, as the claims speak of them
Defined(cell) == cell # NaN
Above(row) == Defined(row.sma_50) /\ Defined(row.sma_200)
              /\ row.sma_50[1].num * row.sma_200[1].den > row.sma_200[1].num * row.sma_50[1].den
Below(row) == Defined(row.sma_50) /\ Defined(row.sma_200)
              /\ row.sma_50[1].num * row.sma_200[1].den < row.sma_200[1].num * row.sma_50[1].den
BothDefined(row) == Defined(row.sma_50) /\ Defined(row.sma_200)

\* C13: golden_cross[i] is true iff sma_50[i] > sma_200[i] and
\* sma_50[i-1] <= sma_200[i-1], false when an average of either row is
\* undefined and false at the first row; it is never true on two consecutive
\* rows; death_cross mirrors it with < and >=.
C13_CrossIsEdgeTriggered ==
    stage \in {"signals", "complete"} =>
        \A i \in 1..Len(table) :
            /\ table[i].golden_cross <=>
                  /\ i > 1
                  /\ BothDefined(table[i]) /\ BothDefined(table[i - 1])
                  /\ Above(table[i]) /\ ~Above(table[i - 1])
            /\ table[i].death_cross <=>
                  /\ i > 1
                  /\ BothDefined(table[i]) /\ BothDefined(table[i - 1])
                  /\ Below(table[i]) /\ ~Below(table[i - 1])
            /\ i > 1 => ~(table[i].golden_cross /\ table[i - 1].golden_cross)
            /\ i > 1 => ~(table[i].death_cross /\ table[i - 1].death_cross)

\* the 50-bar average went above the 200-bar one on the last bar but one and
\* stayed above on the last: a golden cross on that row only
C13_Witness ==
    /\ stage = "complete" /\ Len(table) = 202
    /\ table[201].golden_cross /\ ~table[202].golden_cross
    /\ Above(table[202])
    /\ ~table[200].golden_cross

\* C14: with at least 200 bars, sma_200 of row i (0-based) is the mean of the
\* closes of rows i-199..i for i >= 199 and undefined for i < 199; with 50 to
\* 199 bars it is undefined on every row.  (Rows are numbered from 1 here.)
C14_Sma200IsMeanOf200 ==
    stage # "idle" /\ stage # "loaded" =>
        \A i \in 1..Len(table) :
            IF i >= 200
            THEN /\ Defined(table[i].sma_200)
                 /\ table[i].sma_200[1].num * 200 =
                        table[i].sma_200[1].den * SumOf(Column(df, "close"), i - 199, i)
            ELSE table[i].sma_200 = NaN

\* a series of 201 bars whose last close differs: defined on the last two rows
C14_Witness ==
    /\ stage = "complete" /\ Len(table) = 201
    /\ df[201].close = 11 /\ df[200].close = 1
    /\ table[199].sma_200 = NaN
    /\ table[200].sma_200 = Rat(1991, 200)
    /\ table[201].sma_200 = Rat(1992, 200)

\* the rows on which two frames agree from the first row on
AgreeUpTo(a, b, i) == i <= Len(a) /\ i <= Len(b) /\ \A j \in 1..i : a[j] = b[j]

CodePoints == <<"-", "0", "1", "A", "B", "C", "D", "E", "G", "I", "J", "L", "N", "O",
                "P", "Q", "S", "T", "U", "V", "X", "Y", "^", "_">>
Ord(c) == CHOOSE i \in 1..Len(CodePoints) : CodePoints[i] = c

\* a <= b for two strings
RECURSIVE StrLE(_, _)
StrLE(a, b) ==
    IF a = <<>> THEN TRUE
    ELSE IF b = <<>> THEN FALSE
    ELSE IF Head(a) = Head(b) THEN StrLE(Tail(a), Tail(b))
    ELSE Ord(Head(a)) < Ord(Head(b))

\* sorted(symbols)
RECURSIVE sorted(_)
sorted(strs) ==
    IF strs = <<>> THEN <<>>
    ELSE LET x == strs[Len(strs)]
             before == sorted(SubSeq(strs, 1, Len(strs) - 1))
             n == Cardinality({i \in 1..Len(before) : StrLE(before[i], x)})
         IN  SubSeq(before, 1, n) \o <<x>> \o SubSeq(before, n + 1, Len(before))

\* df.sort_index(): ascending by date
\* (a row goes behind the rows of an earlier date, and behind the rows of
\* its own date that precede it)
sort_index(rows) ==
    LET n == Len(rows)
        place == SubSeq([i \in 1..n |->
                           Cardinality({j \in 1..n : \/ rows[j].date < rows[i].date
                                                     \/ /\ rows[j].date = rows[i].date
                                                        /\ j <= i})], 1, n)
    IN  SubSeq([k \in 1..n |-> rows[CHOOSE i \in 1..n : place[i] = k]], 1, n)

\* load_symbol_raw_data: the DataFrame, or None without a file or without bars
load_symbol_raw_data(symbol) ==
    LET file == get(raw, load_symbol_raw_data_safe_symbol(symbol))
    IN  IF file = None THEN None
        ELSE IF file[1].data = <<>> THEN None
        ELSE Some(sort_index(file[1].data))

\* the files of data/raw in the order glob yields them, here by stem
RECURSIVE SetToSeq(_)
SetToSeq(strs) ==
    IF strs = {} THEN <<>>
    ELSE LET x == CHOOSE y \in strs : \A z \in strs : StrLE(y, z)
         IN  <<x>> \o SetToSeq(strs \ {x})

\* get_all_symbols of data_helpers.py: the symbol of every raw file, sorted
get_all_symbols ==
    LET stems == SetToSeq(DOMAIN raw)
        named == SelectSeq(stems, LAMBDA st : raw[st].symbol # <<>>)
    IN  sorted([i \in 1..Len(named) |-> raw[named[i]].symbol])

\* save_analytics: the structure written to <output_dir>/<analytics_type>/<stem>.json
save_analytics(symbol, analytics_type, frame, now) ==
    [symbol |-> symbol, analytics_type |-> analytics_type, last_calculated |-> now,
     data_points |-> Len(frame), data |-> frame]

\* a variant of line 48 with a lower threshold
insufficient_data_Below20(frame) == Len(frame) < 20

\* calculate_for_symbol, line 48
insufficient_data(frame) == Len(frame) < 50

\* calculate_for_symbol, lines 53-59
df_complete(frame) ==
    calculate_momentum_metrics(calculate_custom_signals(calculate_all(frame)))

GSPC == <<"^", "G", "S", "P", "C">>
DJI == <<"^", "D", "J", "I">>
IXIC == <<"^", "I", "X", "I", "C">>
skip_symbols == {VIX, GSPC, DJI, IXIC}

\* symbol.endswith('-USD')
endswith_USD(symbol) ==
    Len(symbol) >= 4 /\ SubSeq(symbol, Len(symbol) - 3, Len(symbol)) = <<"-", "U", "S", "D">>

\* calculate_for_symbol, lines 69-73: what becomes of the fundamentals:
\* not asked for, saved, none found, or an exception out of save_fundamentals
fundamentals_outcomes(symbol, include) ==
    IF include /\ symbol \notin skip_symbols /\ ~endswith_USD(symbol)
    THEN {"saved", "none", "raises"}
    ELSE {"skipped"}

\* the raw file of a symbol with n bars, newest first as save_symbol_data
\* leaves them
RawFile(symbol, n) ==
    full_data(symbol, "stock", "tech", "alpha_vantage", 0, [i \in 1..n |-> Bar(n + 1 - i, 10)])

\* the symbols of the calculator runs: a stock, an index and a crypto pair
CalcSymbols == <<VIX, NVDA, BTC_USD>>

\* how many bars the raw file of a symbol holds; Absent for no file
Absent == 0 - 1
RawLengths == {Absent, 0, 49, 50 + MaxOver}

\* the raw directory in which CalcSymbols[i] has a file of lengths[i] bars
RawDir(lengths) ==
    LET present == {i \in 1..Len(CalcSymbols) : lengths[i] # Absent}
        stems == {get_symbol_file_path(CalcSymbols[i]) : i \in present}
    IN  [st \in stems |->
            LET i == CHOOSE j \in present : get_symbol_file_path(CalcSymbols[j]) = st
            IN  RawFile(CalcSymbols[i], lengths[i])]

\* a technical file left by an earlier run
OldTechnical(symbol) == save_analytics(symbol, "technical", <<Bar(1, 10)>>, 0)

\* the technical directory: empty, or with a file of an earlier run for
\* every symbol
TechnicalDirs ==
    { <<>>,
      [st \in {save_analytics_safe_symbol(CalcSymbols[i]) : i \in 1..Len(CalcSymbols)} |->
          LET i == CHOOSE j \in 1..Len(CalcSymbols) :
                       save_analytics_safe_symbol(CalcSymbols[j]) = st
          IN  OldTechnical(CalcSymbols[i])] }

InitCalc ==
    /\ InitNoRaw
    /\ IdleStem
    /\ IdleIndicators
    /\ IdleAgg
    /\ IdleRate
    /\ IdleHealth
    /\ raw \in {RawDir(l) : l \in [1..Len(CalcSymbols) -> RawLengths]}
    /\ technical \in TechnicalDirs
    /\ fundamentals = {}
    /\ calc_pc = "idle"
    /\ calc_symbols = <<>>
    /\ include_fundamentals = FALSE
    /\ calc_idx = 1
    /\ calc_successful = 0
    /\ calc_failed = 0
    /\ calc_returned = <<>>
    /\ calc_results = <<>>

\* the symbols argument of calculate_all: None, no symbol, or a list in an
\* order of the caller's
SymbolsArguments == {None, Some(<<>>), Some(CalcSymbols)}

\* calculate_all(symbols, include_fundamentals), lines 92-98
CalculateAllStart ==
    /\ calc_pc = "idle"
    /\ \E symbols \in SymbolsArguments, include \in BOOLEAN :
         /\ calc_symbols' = IF symbols = None THEN get_all_symbols ELSE symbols[1]
         /\ include_fundamentals' = include
         /\ calc_pc' = IF calc_symbols' = <<>> THEN "return" ELSE "loop"
    /\ calc_idx' = 1
    /\ calc_successful' = 0
    /\ calc_failed' = 0
    /\ UNCHANGED <<storeVars, fetchVars, writeVars, rateVars, healthVars, stemVars, indicatorVars, aggVars,
                   technical, fundamentals, calc_returned, calc_results>>

\* the bookkeeping of one iteration of the loop of calculate_all, lines 100-104
Counted(symbol, returned) ==
    /\ calc_returned' = Append(calc_returned, [symbol |-> symbol, returned |-> returned])
    /\ calc_successful' = IF returned THEN calc_successful + 1 ELSE calc_successful
    /\ calc_failed' = IF returned THEN calc_failed ELSE calc_failed + 1
    /\ calc_idx' = calc_idx + 1
    /\ calc_pc' = IF calc_idx < Len(calc_symbols) THEN "loop" ELSE "return"

\* one iteration of the loop: calculate_for_symbol(symbol) returns False:
\* at lines 44-50 when nothing was loaded or the bars are too few, and
\* otherwise at line 79, after an exception out of the indicators
CalculateForSymbolFails ==
    /\ calc_pc = "loop"
    /\ Counted(calc_symbols[calc_idx], FALSE)
    /\ UNCHANGED <<storeVars, fetchVars, writeVars, rateVars, healthVars, stemVars, indicatorVars, aggVars,
                   technical, fundamentals, calc_symbols, include_fundamentals,
                   calc_results>>

\* one iteration of the loop: calculate_for_symbol(symbol) reaches
\* save_analytics at line 62, then the fundamentals of lines 69-73
CalculateForSymbolSaves ==
    /\ calc_pc = "loop"
    /\ LET symbol == calc_symbols[calc_idx]
           loaded == load_symbol_raw_data(symbol)
       IN  /\ IF loaded = None THEN FALSE ELSE ~insufficient_data(loaded[1])
           /\ \E now \in Later(clock),
                 outcome \in fundamentals_outcomes(symbol, include_fundamentals) :
                /\ technical' = put(technical, save_analytics_safe_symbol(symbol),
                                    save_analytics(symbol, "technical",
                                                   df_complete(loaded[1]), now))
                /\ fundamentals' = IF outcome = "saved"
                                   THEN fundamentals \cup {save_fundamentals_safe_symbol(symbol)}
                                   ELSE fundamentals
                /\ clock' = now
                /\ Counted(symbol, outcome # "raises")
    /\ UNCHANGED <<metadata, raw, last_save, fetchVars, writeVars, rateVars, healthVars, stemVars, indicatorVars,
                   aggVars,
                   calc_symbols, include_fundamentals, calc_results>>

\* calculate_all, lines 113-116
CalculateAllReturn ==
    /\ calc_pc = "return"
    /\ calc_results' = Some([successful |-> calc_successful, failed |-> calc_failed])
    /\ calc_pc' = "done"
    /\ UNCHANGED <<storeVars, fetchVars, writeVars, rateVars, healthVars, stemVars, indicatorVars, aggVars,
                   technical, fundamentals, calc_symbols, include_fundamentals,
                   calc_idx, calc_successful, calc_failed, calc_returned>>

NextCalc ==
    \/ CalculateAllStart
    \/ CalculateForSymbolFails
    \/ CalculateForSymbolSaves
    \/ CalculateAllReturn

SpecCalc == InitCalc /\ [][NextCalc]_vars

\* the number of bars the raw file of a symbol holds, 0 without a file
bars_of(symbol) ==
    IF Sanitized(symbol) \in DOMAIN raw THEN Len(raw[Sanitized(symbol)].data) ELSE 0

\* an iteration of the loop of calculate_all is taken
Iteration == calc_pc = "loop" /\ calc_idx' = calc_idx + 1

\* C12: calculate_for_symbol on a symbol with fewer than 50 bars returns
\* False and leaves the technical (and fundamentals) files as they were, the
\* loop goes on with the next symbol, and when calculate_all has returned
\* every symbol was processed once, in order, and successful + failed is
\* the number of symbols.
C12_TooFewBarsFailsAndLoopGoesOn ==
    /\ [][(Iteration /\ bars_of(calc_symbols[calc_idx]) < 50) =>
            /\ technical' = technical
            /\ fundamentals' = fundamentals
            /\ calc_returned' = Append(calc_returned,
                                       [symbol |-> calc_symbols[calc_idx], returned |-> FALSE])
            /\ calc_failed' = calc_failed + 1
            /\ calc_successful' = calc_successful
            /\ calc_pc' = IF calc_idx < Len(calc_symbols) THEN "loop" ELSE "return"]_vars
    /\ [](calc_pc = "done" =>
            /\ Len(calc_returned) = Len(calc_symbols)
            /\ \A i \in 1..Len(calc_symbols) : calc_returned[i].symbol = calc_symbols[i]
            /\ calc_results[1].successful + calc_results[1].failed = Len(calc_symbols)
            /\ calc_results[1].failed
                 = Cardinality({i \in 1..Len(calc_returned) : ~calc_returned[i].returned}))

\* calculate_all has returned after a symbol of 49 bars failed, with its
\* technical file of an earlier run untouched, and a later symbol of 50 or
\* more bars was calculated and saved
C12_Witness ==
    /\ calc_pc = "done"
    /\ \E i, j \in 1..Len(calc_symbols) :
         /\ i < j
         /\ bars_of(calc_symbols[i]) = 49
         /\ ~calc_returned[i].returned
         /\ save_analytics_safe_symbol(calc_symbols[i]) \in DOMAIN technical
         /\ technical[save_analytics_safe_symbol(calc_symbols[i])]
              = OldTechnical(calc_symbols[i])
         /\ bars_of(calc_symbols[j]) >= 50
         /\ calc_returned[j].returned
         /\ technical[save_analytics_safe_symbol(calc_symbols[j])].data_points
              = bars_of(calc_symbols[j])

(***************************************************************************)
(* AnalyticsAggregator (src/src/analytics/aggregator.py).  A JSON number   *)
(* is a Rat cell and JSON null is None.                                    *)
(***************************************************************************)
Max(a, b) == IF a >= b THEN a ELSE b

\* dict.get(key) and dict.get(key, default)
dict_get(d, key) == IF key \in DOMAIN d THEN d[key] ELSE None
dict_get_default(d, key, default) == IF key \in DOMAIN d THEN d[key] ELSE default

\* a file json.load cannot parse, such as one whose write was cut short
Unreadable == [unreadable |-> TRUE]
readable(file) == "unreadable" \notin DOMAIN file

\* load_technical_data: the dict, or None without a file or after an exception
load_technical_data(symbol) ==
    LET stem == load_technical_data_safe_symbol(symbol)
    IN  IF stem \notin DOMAIN technical THEN None
        ELSE IF ~readable(technical[stem]) THEN None
        ELSE Some(technical[stem])

\* get_all_symbols of the aggregator: the symbol of every file that parses,
\* its stem where the file names no symbol, in the order of glob
aggregator_get_all_symbols ==
    LET parsed == SelectSeq(glob_order, LAMBDA st : readable(technical[st]))
    IN  [i \in 1..Len(parsed) |-> dict_get_default(technical[parsed[i]], "symbol", parsed[i])]

\* create_latest_values_summary, line 77: not tech_data or not tech_data.get('data')
skipped(tech_data) ==
    IF tech_data = None THEN TRUE
    ELSE IF "data" \notin DOMAIN tech_data[1] THEN TRUE
    ELSE tech_data[1].data = <<>>

\* create_latest_values_summary, lines 80-138: the record of one symbol
symbol_summary(symbol, tech_data) ==
    LET latest == tech_data.data[Len(tech_data.data)]
    IN  [symbol |-> symbol,
         category |-> dict_get_default(tech_data, "analytics_type", "Unknown"),
         price |-> [close |-> dict_get(latest, "close"),
                    open |-> dict_get(latest, "open"),
                    high |-> dict_get(latest, "high"),
                    low |-> dict_get(latest, "low"),
                    volume |-> dict_get(latest, "volume")],
         moving_averages |-> [sma_20 |-> dict_get(latest, "sma_20"),
                              sma_50 |-> dict_get(latest, "sma_50"),
                              sma_200 |-> dict_get(latest, "sma_200"),
                              ema_12 |-> dict_get(latest, "ema_12"),
                              ema_26 |-> dict_get(latest, "ema_26")],
         momentum |-> [rsi_14 |-> dict_get(latest, "rsi_14"),
                       macd |-> dict_get(latest, "macd"),
                       macd_signal |-> dict_get(latest, "macd_signal"),
                       macd_histogram |-> dict_get(latest, "macd_histogram"),
                       stochastic_k |-> dict_get(latest, "stochastic_k"),
                       stochastic_d |-> dict_get(latest, "stochastic_d")],
         volatility |-> [atr_14 |-> dict_get(latest, "atr_14"),
                         bb_upper |-> dict_get(latest, "bb_upper"),
                         bb_middle |-> dict_get(latest, "bb_middle"),
                         bb_lower |-> dict_get(latest, "bb_lower"),
                         volatility_20d |-> dict_get(latest, "volatility_20d")],
         trend |-> [adx |-> dict_get(latest, "adx"),
                    plus_di |-> dict_get(latest, "plus_di"),
                    minus_di |-> dict_get(latest, "minus_di")],
         performance |-> [roc_1d |-> dict_get(latest, "roc_1d"),
                          roc_5d |-> dict_get(latest, "roc_5d"),
                          roc_20d |-> dict_get(latest, "roc_20d"),
                          momentum_10 |-> dict_get(latest, "momentum_10")],
         signals |-> [golden_cross |-> dict_get_default(latest, "golden_cross", FALSE),
                      death_cross |-> dict_get_default(latest, "death_cross", FALSE),
                      macd_bullish_cross |-> dict_get_default(latest, "macd_bullish_cross", FALSE),
                      macd_bearish_cross |-> dict_get_default(latest, "macd_bearish_cross", FALSE),
                      rsi_overbought |-> dict_get_default(latest, "rsi_overbought", FALSE),
                      rsi_oversold |-> dict_get_default(latest, "rsi_oversold", FALSE),
                      price_above_sma_200 |-> dict_get_default(latest, "price_above_sma_200", FALSE),
                      high_volatility |-> dict_get_default(latest, "high_volatility", FALSE),
                      low_volatility |-> dict_get_default(latest, "low_volatility", FALSE)]]

\* a variant of the loop of create_latest_values_summary that takes the
\* first row of the data array
symbol_summaries_FirstRow(symbols) ==
    LET kept == SelectSeq(symbols, LAMBDA sy : ~skipped(load_technical_data(sy)))
    IN  [i \in 1..Len(kept) |->
            LET td == load_technical_data(kept[i])[1]
            IN  symbol_summary(kept[i], [td EXCEPT !.data = <<td.data[1]>>])]

\* create_latest_values_summary, lines 74-138: summary['symbols']
symbol_summaries(symbols) ==
    LET kept == SelectSeq(symbols, LAMBDA sy : ~skipped(load_technical_data(sy)))
    IN  [i \in 1..Len(kept) |-> symbol_summary(kept[i], load_technical_data(kept[i])[1])]

\* create_latest_values_summary: the content of latest_values.json after the
\* call; the file is left as it was when there is no symbol
create_latest_values_summary(now) ==
    LET symbols == aggregator_get_all_symbols
    IN  IF symbols = <<>> THEN latest_values
        ELSE Some([generated_at |-> now,
                   symbol_count |-> Len(symbols),
                   symbols |-> symbol_summaries(symbols)])

\* x or default, for a number or null: null and 0.0 are falsy
or_default(x, default) ==
    IF x = None THEN Rat(default, 1)
    ELSE IF x[1].num = 0 THEN Rat(default, 1)
    ELSE x

\* a > b and a == b for two numbers (the denominators are positive)
num_gt(a, b) == a[1].num * b[1].den > b[1].num * a[1].den
num_eq(a, b) == a[1].num * b[1].den = b[1].num * a[1].den

\* sorted(items, key=..., reverse=True), keys[i] being the key of items[i]:
\* descending and stable, an item goes behind the items of a greater key
\* and behind the items of its own key that precede it
sorted_reverse(items, keys) ==
    LET n == Len(items)
        place == SubSeq([i \in 1..n |->
                           Cardinality({j \in 1..n : \/ num_gt(keys[j], keys[i])
                                                     \/ /\ num_eq(keys[j], keys[i])
                                                        /\ j <= i})], 1, n)
    IN  SubSeq([k \in 1..n |-> items[CHOOSE i \in 1..n : place[i] = k]], 1, n)

\* s[:5], s[-5:] and s[::-1]
first_five(s) == SubSeq(s, 1, Min(5, Len(s)))
last_five(s) == SubSeq(s, Max(1, Len(s) - 4), Len(s))
reversed(s) == [i \in 1..Len(s) |-> s[Len(s) + 1 - i]]

\* the sort keys of create_performance_rankings, lines 210-214
key_roc_1d(x) == or_default(x.performance.roc_1d, -999)
key_roc_5d(x) == or_default(x.performance.roc_5d, -999)
key_roc_20d(x) == or_default(x.performance.roc_20d, -999)
key_rsi(x) == or_default(x.momentum.rsi_14, 0)
key_volatility(x) == or_default(x.volatility.volatility_20d, 0)

\* create_performance_rankings, lines 216-247: the content of
\* performance_rankings.json
rankings(latest_data, now) ==
    LET symbols == latest_data.symbols
        n == Len(symbols)
        by_roc_1d ==
            sorted_reverse(symbols, SubSeq([i \in 1..n |-> key_roc_1d(symbols[i])], 1, n))
        by_roc_5d ==
            sorted_reverse(symbols, SubSeq([i \in 1..n |-> key_roc_5d(symbols[i])], 1, n))
        by_roc_20d ==
            sorted_reverse(symbols, SubSeq([i \in 1..n |-> key_roc_20d(symbols[i])], 1, n))
        by_rsi ==
            sorted_reverse(symbols, SubSeq([i \in 1..n |-> key_rsi(symbols[i])], 1, n))
        by_volatility ==
            sorted_reverse(symbols, SubSeq([i \in 1..n |-> key_volatility(symbols[i])], 1, n))
        roc_1d_of(l) == [i \in 1..Len(l) |->
                            [symbol |-> l[i].symbol, roc_1d |-> l[i].performance.roc_1d]]
        roc_5d_of(l) == [i \in 1..Len(l) |->
                            [symbol |-> l[i].symbol, roc_5d |-> l[i].performance.roc_5d]]
        roc_20d_of(l) == [i \in 1..Len(l) |->
                            [symbol |-> l[i].symbol, roc_20d |-> l[i].performance.roc_20d]]
        rsi_of(l) == [i \in 1..Len(l) |->
                            [symbol |-> l[i].symbol, rsi_14 |-> l[i].momentum.rsi_14]]
        volatility_of(l) == [i \in 1..Len(l) |->
                            [symbol |-> l[i].symbol,
                             volatility_20d |-> l[i].volatility.volatility_20d]]
    IN  [generated_at |-> now,
         top_gainers_1d |-> roc_1d_of(first_five(by_roc_1d)),
         top_losers_1d |-> roc_1d_of(reversed(last_five(by_roc_1d))),
         top_gainers_5d |-> roc_5d_of(first_five(by_roc_5d)),
         top_gainers_20d |-> roc_20d_of(first_five(by_roc_20d)),
         most_overbought |-> rsi_of(first_five(by_rsi)),
         most_oversold |-> rsi_of(reversed(last_five(by_rsi))),
         highest_volatility |-> volatility_of(first_five(by_volatility))]

\* create_category_summary, lines 160-186: the content of by_category.json;
\* the categories come in the order of their first symbol
category_summary(latest_data, now) ==
    LET symbols == latest_data.symbols
        category_of(i) == dict_get_default(symbols[i], "category", "Unknown")
        firsts == SelectSeq([i \in 1..Len(symbols) |-> i],
                            LAMBDA i : \A j \in 1..(i - 1) : category_of(j) # category_of(i))
        row_of(sy) == [symbol |-> sy.symbol,
                       close |-> sy.price.close,
                       rsi_14 |-> sy.momentum.rsi_14,
                       roc_1d |-> sy.performance.roc_1d,
                       roc_5d |-> sy.performance.roc_5d,
                       roc_20d |-> sy.performance.roc_20d,
                       volatility_20d |-> sy.volatility.volatility_20d,
                       price_above_sma_200 |-> sy.signals.price_above_sma_200]
        members(cat) == SelectSeq([i \in 1..Len(symbols) |-> i], LAMBDA i : category_of(i) = cat)
    IN  [generated_at |-> now,
         category_count |-> Len(firsts),
         categories |->
            [k \in 1..Len(firsts) |->
                LET cat == category_of(firsts[k])
                    rows == members(cat)
                IN  [category |-> cat,
                     symbol_count |-> Len(rows),
                     symbols |-> [m \in 1..Len(rows) |-> row_of(symbols[rows[m]])]]]]

\* a variant of the test of a signal that is true when any signal is
has_signal_Any(sy, signal) == \E k \in DOMAIN sy.signals : sy.signals[k]

\* create_active_signals_summary, line 283: if signals.get('golden_cross')
has_signal(sy, signal) == dict_get_default(sy.signals, signal, FALSE)

\* create_active_signals_summary, lines 267-332: the content of
\* active_signals.json
signals_summary(latest_data, now) ==
    LET symbols == latest_data.symbols
        having(signal) == SelectSeq(symbols, LAMBDA sy : has_signal(sy, signal))
        dated(l) == [i \in 1..Len(l) |->
                        [symbol |-> l[i].symbol, date |-> latest_data.generated_at]]
        with_macd(l) == [i \in 1..Len(l) |->
                        [symbol |-> l[i].symbol, macd |-> l[i].momentum.macd]]
        with_rsi(l) == [i \in 1..Len(l) |->
                        [symbol |-> l[i].symbol, rsi |-> l[i].momentum.rsi_14]]
        with_volatility(l) == [i \in 1..Len(l) |->
                        [symbol |-> l[i].symbol, volatility |-> l[i].volatility.volatility_20d]]
    IN  [generated_at |-> now,
         golden_crosses |-> dated(having("golden_cross")),
         death_crosses |-> dated(having("death_cross")),
         macd_bullish_crosses |-> with_macd(having("macd_bullish_cross")),
         macd_bearish_crosses |-> with_macd(having("macd_bearish_cross")),
         rsi_overbought |-> with_rsi(having("rsi_overbought")),
         rsi_oversold |-> with_rsi(having("rsi_oversold")),
         high_volatility |-> with_volatility(having("high_volatility")),
         low_volatility |-> with_volatility(having("low_volatility"))]

\* lines 199-205, which the three views of latest_values.json start with:
\* the file, created first where it is not there; None where it is still
\* not there, and open() raises FileNotFoundError
\* (the clock is read for it only where the file is created)
latest_data_at(now) ==
    IF latest_values # None THEN latest_values ELSE create_latest_values_summary(now)

\* create_performance_rankings()
create_performance_rankings ==
    \E now1 \in Later(clock) :
      \E now2 \in Later(IF latest_values # None THEN clock ELSE now1) :
        LET latest_data == latest_data_at(now1)
        IN  /\ latest_values' = latest_data
            /\ performance_rankings' = IF latest_data = None THEN performance_rankings
                                       ELSE Some(rankings(latest_data[1], now2))
            /\ agg_raised' = (agg_raised \/ latest_data = None)
            /\ clock' = IF latest_data = None THEN now1 ELSE now2

\* create_category_summary()
create_category_summary ==
    \E now1 \in Later(clock) :
      \E now2 \in Later(IF latest_values # None THEN clock ELSE now1) :
        LET latest_data == latest_data_at(now1)
        IN  /\ latest_values' = latest_data
            /\ by_category' = IF latest_data = None THEN by_category
                              ELSE Some(category_summary(latest_data[1], now2))
            /\ agg_raised' = (agg_raised \/ latest_data = None)
            /\ clock' = IF latest_data = None THEN now1 ELSE now2

\* create_active_signals_summary()
create_active_signals_summary ==
    \E now1 \in Later(clock) :
      \E now2 \in Later(IF latest_values # None THEN clock ELSE now1) :
        LET latest_data == latest_data_at(now1)
        IN  /\ latest_values' = latest_data
            /\ active_signals' = IF latest_data = None THEN active_signals
                                 ELSE Some(signals_summary(latest_data[1], now2))
            /\ agg_raised' = (agg_raised \/ latest_data = None)
            /\ clock' = IF latest_data = None THEN now1 ELSE now2

(***************************************************************************)
(* create_performance_rankings on a latest_values.json that is there.      *)
(***************************************************************************)
\* the last row of the technical file of a symbol: without the ranked
\* columns, falling, flat (0.0) or rising
Profiles == {"missing", "falling", "flat", "rising"}
ProfileRow(profile) ==
    LET bar == [date |-> 1, close |-> Rat(10, 1)]
        ranked(roc, rsi, vol) ==
            [roc_1d |-> Rat(roc, 1), roc_5d |-> Rat(roc, 1), roc_20d |-> Rat(roc, 1),
             rsi_14 |-> Rat(rsi, 1), volatility_20d |-> Rat(vol, 1)]
    IN  CASE profile = "missing" -> bar
          [] profile = "falling" -> bar @@ ranked(-1, 30, 2)
          [] profile = "flat" -> bar @@ ranked(0, 50, 0)
          [] profile = "rising" -> bar @@ ranked(1, 70, 2)

\* the i-th symbol of latest_values.json
RankedSymbol(i) == <<"S", i>>

\* latest_values.json as create_latest_values_summary writes it for symbols
\* of the given profiles
LatestOf(profiles) ==
    [generated_at |-> 0,
     symbol_count |-> Len(profiles),
     symbols |-> [i \in 1..Len(profiles) |->
                    symbol_summary(RankedSymbol(i),
                                   save_analytics(RankedSymbol(i), "technical",
                                                  <<ProfileRow(profiles[i])>>, 0))]]

InitRank ==
    /\ InitFetch
    /\ IdleStem
    /\ IdleIndicators
    /\ IdleCalc
    /\ IdleRate
    /\ IdleHealth
    /\ glob_order = <<>>
    /\ latest_values \in {None} \cup
           {Some(LatestOf(profiles)) :
                profiles \in UNION {[1..n -> Profiles] : n \in 1..MaxSyms}}
    /\ by_category = None
    /\ performance_rankings = None
    /\ active_signals = None
    /\ agg_pc = "idle"
    /\ agg_previous = None
    /\ agg_raised = FALSE

\* aggregator.create_performance_rankings(), called on its own
CreatePerformanceRankings ==
    /\ agg_pc = "idle"
    /\ create_performance_rankings
    /\ agg_pc' = "done"
    /\ UNCHANGED <<metadata, raw, last_save, fetchVars, writeVars, rateVars, healthVars, stemVars, indicatorVars,
                   calcVars, glob_order, by_category, active_signals, agg_previous>>

NextRank == CreatePerformanceRankings

SpecRank == InitRank /\ [][NextRank]_vars

(***************************************************************************)
(* Properties of the rankings.                                             *)
(***************************************************************************)
\* the seven lists of performance_rankings.json, each with the field its
\* entries carry and the value that stands for a missing one in its sort key
RankingLists(r) ==
    << [name |-> "top_gainers_1d", list |-> r.top_gainers_1d, metric |-> "roc_1d", default |-> -999],
       [name |-> "top_losers_1d", list |-> r.top_losers_1d, metric |-> "roc_1d", default |-> -999],
       [name |-> "top_gainers_5d", list |-> r.top_gainers_5d, metric |-> "roc_5d", default |-> -999],
       [name |-> "top_gainers_20d", list |-> r.top_gainers_20d, metric |-> "roc_20d", default |-> -999],
       [name |-> "most_overbought", list |-> r.most_overbought, metric |-> "rsi_14", default |-> 0],
       [name |-> "most_oversold", list |-> r.most_oversold, metric |-> "rsi_14", default |-> 0],
       [name |-> "highest_volatility", list |-> r.highest_volatility,
        metric |-> "volatility_20d", default |-> 0] >>

\* the rankings were written from a latest_values.json
Ranked == performance_rankings # None /\ latest_values # None

\* where a symbol stands in the symbols array of latest_values.json
PositionOf(symbol) ==
    CHOOSE k \in 1..Len(latest_values[1].symbols) : latest_values[1].symbols[k].symbol = symbol

Roc1dOf(symbol) == latest_values[1].symbols[PositionOf(symbol)].performance.roc_1d

AllRoc1dDefined ==
    \A k \in 1..Len(latest_values[1].symbols) :
        latest_values[1].symbols[k].performance.roc_1d # None

HasProfileValue(n) ==
    \E k \in 1..Len(latest_values[1].symbols) :
        latest_values[1].symbols[k].performance.roc_1d = Rat(n, 1)

\* C16: over symbols that all have a roc_1d (positive, negative or 0.0),
\* top_gainers_1d lists min(5, n) different symbols of latest_values with
\* their roc_1d, in descending order of roc_1d, and no symbol left out has a
\* roc_1d strictly greater than a listed one.
C16_TopGainersAreHighest ==
    (Ranked /\ AllRoc1dDefined) =>
        LET top == performance_rankings[1].top_gainers_1d
            symbols == latest_values[1].symbols
            listed == {top[i].symbol : i \in 1..Len(top)}
            all == {symbols[k].symbol : k \in 1..Len(symbols)}
        IN  /\ Len(top) = Min(5, Len(symbols))
            /\ Cardinality(listed) = Len(top)
            /\ listed \subseteq all
            /\ \A i \in 1..Len(top) : top[i].roc_1d = Roc1dOf(top[i].symbol)
            /\ \A i, j \in 1..Len(top) : i < j => ~num_gt(top[j].roc_1d, top[i].roc_1d)
            /\ \A out \in all \ listed : \A in \in listed :
                   ~num_gt(Roc1dOf(out), Roc1dOf(in))

\* C17: over symbols none of which has a metric of exactly 0.0, every list
\* keeps min(5, n) symbols, an entry whose metric is null stands behind
\* every entry whose metric is defined, and the ranking does not raise.
C17_MissingRankedLast ==
    (Ranked /\ ~HasProfileValue(0)) =>
        /\ ~agg_raised
        /\ \A l \in 1..Len(RankingLists(performance_rankings[1])) :
             LET ranking == RankingLists(performance_rankings[1])[l]
             IN  /\ Len(ranking.list) = Min(5, Len(latest_values[1].symbols))
                 /\ \A i, j \in 1..Len(ranking.list) :
                      (i < j /\ ranking.list[i][ranking.metric] = None)
                          => ranking.list[j][ranking.metric] = None

\* C18: in every list two entries of equal sort key stand in the order
\* their symbols have in the symbols array of latest_values.json.
C18_TiesKeepInputOrder ==
    Ranked =>
        \A l \in 1..Len(RankingLists(performance_rankings[1])) :
            LET ranking == RankingLists(performance_rankings[1])[l]
                key(e) == or_default(e[ranking.metric], ranking.default)
            IN  \A i, j \in 1..Len(ranking.list) :
                    (i < j /\ num_eq(key(ranking.list[i]), key(ranking.list[j])))
                        => PositionOf(ranking.list[i].symbol)
                             < PositionOf(ranking.list[j].symbol)

(***************************************************************************)
(* create_all over a technical directory, run twice on the same files.     *)
(***************************************************************************)
\* a row of a technical file with the columns the calculator writes; cross
\* and bear say which of its signals are on
TechnicalRow(date, close, cross, bear) ==
    [date |-> date,
     open |-> Rat(close, 1), high |-> Rat(close + 1, 1), low |-> Rat(close - 1, 1),
     close |-> Rat(close, 1), volume |-> Rat(1000, 1),
     sma_20 |-> Rat(10, 1), sma_50 |-> Rat(10, 1), sma_200 |-> NaN,
     ema_12 |-> Rat(10, 1), ema_26 |-> Rat(10, 1),
     rsi_14 |-> Rat(40 + close, 1),
     macd |-> Rat(close - 10, 1), macd_signal |-> Rat(0, 1), macd_histogram |-> Rat(close - 10, 1),
     bb_upper |-> Rat(12, 1), bb_middle |-> Rat(10, 1), bb_lower |-> Rat(8, 1),
     atr_14 |-> Rat(2, 1), stoch_k |-> Rat(50, 1), stoch_d |-> Rat(50, 1),
     adx |-> Rat(20, 1), adx_pos |-> Rat(20, 1), adx_neg |-> Rat(20, 1),
     golden_cross |-> cross, death_cross |-> bear,
     macd_bullish_cross |-> cross, macd_bearish_cross |-> bear,
     rsi_overbought |-> cross, rsi_oversold |-> bear,
     price_above_sma_200 |-> FALSE, high_volatility |-> cross, low_volatility |-> bear,
     roc_1d |-> Rat(close - 10, 1), roc_5d |-> Rat(close - 10, 1),
     roc_20d |-> Rat(close - 10, 1), momentum_10 |-> Rat(close - 10, 1),
     volatility_20d |-> Rat(2, 1)]

\* what is found under the stem of a symbol: no file, a file whose last row
\* has a golden cross, a file whose last row has a death cross, a file whose
\* last row has none, a file cut short, a file with an empty data array
FileKinds == {"absent", "cross", "bear", "plain", "unreadable", "empty"}

TechnicalFile(symbol, kind) ==
    CASE kind = "cross" ->
           save_analytics(symbol, "technical",
                          <<TechnicalRow(1, 10, FALSE, TRUE),
                            TechnicalRow(2, 12, TRUE, FALSE)>>, 0)
      [] kind = "bear" ->
           save_analytics(symbol, "technical",
                          <<TechnicalRow(1, 10, FALSE, FALSE),
                            TechnicalRow(2, 8, FALSE, TRUE)>>, 0)
      [] kind = "plain" ->
           save_analytics(symbol, "technical",
                          <<TechnicalRow(1, 10, TRUE, FALSE),
                            TechnicalRow(2, 9, FALSE, FALSE)>>, 0)
      [] kind = "unreadable" -> Unreadable
      [] kind = "empty" -> save_analytics(symbol, "technical", <<>>, 0)

\* a file kept under another name than its symbol's: the symbol it names
\* has no file
OLD == <<"O", "L", "D">>
GONE == <<"G", "O", "N", "E">>

\* the technical directory with a file of kinds[i] for CalcSymbols[i], and
\* the file under another name or not
TechnicalDir(kinds, stale) ==
    LET present == {i \in 1..Len(CalcSymbols) : kinds[i] # "absent"}
        stems == {save_analytics_safe_symbol(CalcSymbols[i]) : i \in present}
    IN  [st \in stems \cup (IF stale THEN {OLD} ELSE {}) |->
            IF st = OLD THEN TechnicalFile(GONE, "plain")
            ELSE LET i == CHOOSE j \in present : save_analytics_safe_symbol(CalcSymbols[j]) = st
                 IN  TechnicalFile(CalcSymbols[i], kinds[i])]

InitAgg ==
    /\ InitFetch
    /\ IdleStem
    /\ IdleIndicators
    /\ IdleRate
    /\ IdleHealth
    /\ technical \in {TechnicalDir(kinds, stale) :
                          kinds \in [1..Len(CalcSymbols) -> FileKinds], stale \in BOOLEAN}
    /\ fundamentals = {}
    /\ calc_pc = "idle"
    /\ calc_symbols = <<>>
    /\ include_fundamentals = FALSE
    /\ calc_idx = 1
    /\ calc_successful = 0
    /\ calc_failed = 0
    /\ calc_returned = <<>>
    /\ calc_results = <<>>
    /\ glob_order \in {SetToSeq(DOMAIN technical), reversed(SetToSeq(DOMAIN technical))}
    /\ latest_values = None
    /\ by_category = None
    /\ performance_rankings = None
    /\ active_signals = None
    /\ agg_pc = "idle"
    /\ agg_previous = None
    /\ agg_raised = FALSE

\* what every step of create_all leaves alone
AggFrame == UNCHANGED <<metadata, raw, last_save, fetchVars, writeVars, rateVars, healthVars, stemVars,
                        indicatorVars, calcVars, glob_order>>

\* where create_all goes on after a view: an exception ends it
after_view(next_pc) == agg_pc' = IF agg_raised' THEN "done" ELSE next_pc

\* create_all, line 346: self.create_latest_values_summary()
CreateLatestValuesSummary ==
    /\ agg_pc = "idle"
    /\ \E now \in Later(clock) :
         /\ latest_values' = create_latest_values_summary(now)
         /\ clock' = now
    /\ agg_pc' = "category"
    /\ AggFrame
    /\ UNCHANGED <<by_category, performance_rankings, active_signals, agg_previous, agg_raised>>

\* create_all, line 347: self.create_category_summary()
CreateCategorySummary ==
    /\ agg_pc = "category"
    /\ create_category_summary
    /\ after_view("rankings")
    /\ AggFrame
    /\ UNCHANGED <<performance_rankings, active_signals, agg_previous>>

\* create_all, line 348: self.create_performance_rankings()
CreateAllPerformanceRankings ==
    /\ agg_pc = "rankings"
    /\ create_performance_rankings
    /\ after_view("signals")
    /\ AggFrame
    /\ UNCHANGED <<by_category, active_signals, agg_previous>>

\* create_all, line 349: self.create_active_signals_summary()
CreateActiveSignalsSummary ==
    /\ agg_pc = "signals"
    /\ create_active_signals_summary
    /\ after_view("done")
    /\ AggFrame
    /\ UNCHANGED <<by_category, performance_rankings, agg_previous>>

\* the files of a finished create_all
aggregate_files ==
    [latest_values |-> latest_values, by_category |-> by_category,
     performance_rankings |-> performance_rankings, active_signals |-> active_signals]

\* create_all is called once more, on the technical files as they are
CreateAllAgain ==
    /\ agg_pc = "done"
    /\ ~agg_raised
    /\ agg_previous = None
    /\ agg_previous' = Some(aggregate_files)
    /\ agg_pc' = "idle"
    /\ AggFrame
    /\ UNCHANGED <<clock, latest_values, by_category, performance_rankings, active_signals,
                   agg_raised>>

NextAgg ==
    \/ CreateLatestValuesSummary
    \/ CreateCategorySummary
    \/ CreateAllPerformanceRankings
    \/ CreateActiveSignalsSummary
    \/ CreateAllAgain

SpecAgg == InitAgg /\ [][NextAgg]_vars

(***************************************************************************)
(* Properties of the aggregated views.                                     *)
(***************************************************************************)
\* a file without its top-level generated_at
WithoutGeneratedAt(file) ==
    IF file = None THEN None
    ELSE [k \in DOMAIN file[1] \ {"generated_at"} |-> file[1][k]]

\* a second create_all has finished
RanTwice == agg_pc = "done" /\ agg_previous # None /\ ~agg_raised

\* C19: after create_all has run twice on the same technical files, each of
\* the four aggregate files is what the first run left, but for its
\* top-level generated_at.
C19_RerunDiffersInGeneratedAtOnly ==
    RanTwice =>
        /\ WithoutGeneratedAt(latest_values) = WithoutGeneratedAt(agg_previous[1].latest_values)
        /\ WithoutGeneratedAt(by_category) = WithoutGeneratedAt(agg_previous[1].by_category)
        /\ WithoutGeneratedAt(performance_rankings)
             = WithoutGeneratedAt(agg_previous[1].performance_rankings)
        /\ WithoutGeneratedAt(active_signals)
             = WithoutGeneratedAt(agg_previous[1].active_signals)

\* the technical file of a symbol is there, parses and has rows
Loads(symbol) ==
    /\ Sanitized(symbol) \in DOMAIN technical
    /\ readable(technical[Sanitized(symbol)])
    /\ "data" \in DOMAIN technical[Sanitized(symbol)]
    /\ technical[Sanitized(symbol)].data # <<>>

\* the symbols the files of the technical directory name
NamedSymbols ==
    {technical[st].symbol : st \in {x \in DOMAIN technical : readable(technical[x])}}

\* the records of latest_values.json for a symbol
RecordsOf(symbol) ==
    {k \in 1..Len(latest_values[1].symbols) : latest_values[1].symbols[k].symbol = symbol}

\* C20: the latest_values.json that create_latest_values_summary writes
\* holds exactly one record for each symbol whose technical file loads with
\* a non-empty data array, taken from the last row of that array, and no
\* record for any other symbol; nothing is raised and the views after it run.
C20_OneRecordPerLoadedSymbol ==
    (agg_pc = "category" /\ latest_values # None) =>
        /\ ~agg_raised
        /\ \A symbol \in NamedSymbols :
             IF Loads(symbol)
             THEN /\ Cardinality(RecordsOf(symbol)) = 1
                  /\ LET record == latest_values[1].symbols[CHOOSE k \in RecordsOf(symbol) : TRUE]
                         data == technical[Sanitized(symbol)].data
                         last == data[Len(data)]
                     IN  /\ record.price.close = last.close
                         /\ record.performance.roc_1d = last.roc_1d
                         /\ record.momentum.rsi_14 = last.rsi_14
                         /\ record.signals.golden_cross = last.golden_cross
                         /\ \A i \in 1..Len(data) : data[i].date <= last.date
             ELSE RecordsOf(symbol) = {}
        /\ \A k \in 1..Len(latest_values[1].symbols) :
             latest_values[1].symbols[k].symbol \in NamedSymbols

\* latest_values.json was written with a record for a symbol whose file
\* loads, while one file does not parse, one has no rows and one names a
\* symbol that has no file
C20_Witness ==
    /\ agg_pc = "category"
    /\ latest_values # None
    /\ \E st \in DOMAIN technical : ~readable(technical[st])
    /\ \E symbol \in NamedSymbols :
         Sanitized(symbol) \in DOMAIN technical /\ ~Loads(symbol)
    /\ GONE \in NamedSymbols
    /\ \E symbol \in NamedSymbols : Loads(symbol) /\ Cardinality(RecordsOf(symbol)) = 1
    /\ Len(latest_values[1].symbols) = 1

\* the category the ticker registry gives a symbol, which fetch_symbol
\* stores with its raw data
ticker_category(symbol) ==
    LET i == CHOOSE j \in 1..Len(Config) : Config[j].symbol = symbol
    IN  Config[i].category

\* the symbols that have a record in latest_values.json
RecordedSymbols ==
    {latest_values[1].symbols[k].symbol : k \in 1..Len(latest_values[1].symbols)}

\* the groups of by_category.json that list a symbol
GroupsOf(symbol) ==
    {g \in 1..Len(by_category[1].categories) :
        \E m \in 1..Len(by_category[1].categories[g].symbols) :
            by_category[1].categories[g].symbols[m].symbol = symbol}

\* C21: by_category.json puts every symbol of latest values in exactly one
\* group, each group's symbol_count is the number of its entries, and two
\* symbols of the ticker registry are in the same group iff the registry
\* gives them the same category.
C21_GroupsAreRegistryCategories ==
    (by_category # None /\ latest_values # None) =>
        /\ \A g \in 1..Len(by_category[1].categories) :
             by_category[1].categories[g].symbol_count
                 = Len(by_category[1].categories[g].symbols)
        /\ \A symbol \in RecordedSymbols : Cardinality(GroupsOf(symbol)) = 1
        /\ \A a, b \in RecordedSymbols \cap Symbols :
             (GroupsOf(a) = GroupsOf(b)) <=> (ticker_category(a) = ticker_category(b))

\* the eight rosters of active_signals.json, each with the signal it lists
Rosters ==
    << [signal |-> "golden_cross", roster |-> "golden_crosses"],
       [signal |-> "death_cross", roster |-> "death_crosses"],
       [signal |-> "macd_bullish_cross", roster |-> "macd_bullish_crosses"],
       [signal |-> "macd_bearish_cross", roster |-> "macd_bearish_crosses"],
       [signal |-> "rsi_overbought", roster |-> "rsi_overbought"],
       [signal |-> "rsi_oversold", roster |-> "rsi_oversold"],
       [signal |-> "high_volatility", roster |-> "high_volatility"],
       [signal |-> "low_volatility", roster |-> "low_volatility"] >>

\* the last row of the technical file of a symbol that loads
LastRow(symbol) ==
    technical[Sanitized(symbol)].data[Len(technical[Sanitized(symbol)].data)]

\* where a symbol stands in a roster of active_signals.json
EntriesOf(roster, symbol) ==
    {i \in 1..Len(active_signals[1][roster]) : active_signals[1][roster][i].symbol = symbol}

\* C22: in active_signals.json a symbol is in the roster of a signal iff
\* that signal is true in the last row of its technical file, and it is
\* there at most once; the symbols of the rosters are symbols whose file loads.
C22_RostersAreLastRowSignals ==
    (agg_pc = "done" /\ active_signals # None) =>
        \A r \in 1..Len(Rosters) :
            /\ \A symbol \in {sy \in NamedSymbols : Loads(sy)} :
                 /\ Cardinality(EntriesOf(Rosters[r].roster, symbol)) <= 1
                 /\ (EntriesOf(Rosters[r].roster, symbol) # {})
                        <=> LastRow(symbol)[Rosters[r].signal]
            /\ \A i \in 1..Len(active_signals[1][Rosters[r].roster]) :
                 /\ active_signals[1][Rosters[r].roster][i].symbol \in NamedSymbols
                 /\ Loads(active_signals[1][Rosters[r].roster][i].symbol)

\* active_signals.json was written over a file whose last row has a golden
\* cross, a file whose last row has a death cross, and a file whose last row
\* has no signal while its row before has
C22_Witness ==
    /\ agg_pc = "done"
    /\ active_signals # None
    /\ \E a, b, c \in {sy \in NamedSymbols : Loads(sy)} :
         /\ EntriesOf("golden_crosses", a) # {} /\ EntriesOf("death_crosses", a) = {}
         /\ EntriesOf("death_crosses", b) # {} /\ EntriesOf("rsi_oversold", b) # {}
         /\ technical[Sanitized(c)].data[1].golden_cross
         /\ \A r \in 1..Len(Rosters) : EntriesOf(Rosters[r].roster, c) = {}

\* C23: the three views of latest_values.json never raise, and when
\* create_all has ended each of them has written its file, also when there
\* is no technical data for any symbol.
C23_ViewsNeverFail ==
    /\ ~agg_raised
    /\ agg_pc = "done" =>
         /\ by_category # None
         /\ performance_rankings # None
         /\ active_signals # None

\* the indicator fields of a record of latest_values.json, each with its
\* group and with the column of the indicator engine that holds it
IndicatorFields ==
    << <<"moving_averages", "sma_20", "sma_20">>, <<"moving_averages", "sma_50", "sma_50">>,
       <<"moving_averages", "sma_200", "sma_200">>, <<"moving_averages", "ema_12", "ema_12">>,
       <<"moving_averages", "ema_26", "ema_26">>,
       <<"momentum", "rsi_14", "rsi_14">>, <<"momentum", "macd", "macd">>,
       <<"momentum", "macd_signal", "macd_signal">>,
       <<"momentum", "macd_histogram", "macd_histogram">>,
       <<"momentum", "stochastic_k", "stoch_k">>, <<"momentum", "stochastic_d", "stoch_d">>,
       <<"volatility", "atr_14", "atr_14">>, <<"volatility", "bb_upper", "bb_upper">>,
       <<"volatility", "bb_middle", "bb_middle">>, <<"volatility", "bb_lower", "bb_lower">>,
       <<"volatility", "volatility_20d", "volatility_20d">>,
       <<"trend", "adx", "adx">>, <<"trend", "plus_di", "adx_pos">>,
       <<"trend", "minus_di", "adx_neg">>,
       <<"performance", "roc_1d", "roc_1d">>, <<"performance", "roc_5d", "roc_5d">>,
       <<"performance", "roc_20d", "roc_20d">>,
       <<"signals", "golden_cross", "golden_cross">>, <<"signals", "death_cross", "death_cross">>,
       <<"signals", "macd_bullish_cross", "macd_bullish_cross">>,
       <<"signals", "macd_bearish_cross", "macd_bearish_cross">>,
       <<"signals", "rsi_overbought", "rsi_overbought">>,
       <<"signals", "rsi_oversold", "rsi_oversold">>,
       <<"signals", "price_above_sma_200", "price_above_sma_200">>,
       <<"signals", "high_volatility", "high_volatility">>,
       <<"signals", "low_volatility", "low_volatility">> >>

\* C24: every indicator field of a record of latest_values.json is the
\* value of the indicator engine's column for it in the last row of the
\* symbol's technical file.
C24_FieldsAreEngineValues ==
    latest_values # None =>
        \A k \in 1..Len(latest_values[1].symbols) :
            LET record == latest_values[1].symbols[k]
            IN  \A f \in 1..Len(IndicatorFields) :
                    record[IndicatorFields[f][1]][IndicatorFields[f][2]]
                        = LastRow(record.symbol)[IndicatorFields[f][3]]

\* C30: in latest_values.json symbol_count is the number of records of the
\* symbols array, and no symbol has two records.
C30_SymbolCountIsRecordCount ==
    latest_values # None =>
        /\ latest_values[1].symbol_count = Len(latest_values[1].symbols)
        /\ \A i, j \in 1..Len(latest_values[1].symbols) :
             latest_values[1].symbols[i].symbol = latest_values[1].symbols[j].symbol => i = j

\* ---------------------------------------------------------------------------
\* The pacing of the requests: AlphaVantageAPI._make_request and
\* YahooFinanceAPI.fetch_data (SpecRate)
\* ---------------------------------------------------------------------------

MaxWall == 26       \* the seconds of wall clock followed
MaxRequests == 2    \* the requests followed for each of the two fetchers
MaxIdle == 1        \* the seconds the caller may spend between two calls
MaxDuration == 1    \* the seconds a request may take to answer

ALPHA_RATE_LIMIT_DELAY == 12
YAHOO_RATE_LIMIT_DELAY == 1

RATE_LIMIT_DELAY(api) ==
    IF api = "alpha_vantage" THEN ALPHA_RATE_LIMIT_DELAY ELSE YAHOO_RATE_LIMIT_DELAY

\* _wait_for_rate_limit: the time at which it returns
wait_for_rate_limit(api, now) ==
    LET elapsed == now - last_request_time[api]
    IN  IF elapsed < RATE_LIMIT_DELAY(api)
        THEN now + (RATE_LIMIT_DELAY(api) - elapsed)
        ELSE now

\* how requests.get and raise_for_status can end, and what the body can hold
MakeRequestOutcomes == ResponseKinds \cup {"http_error"}

\* line 48 is reached unless requests.get or raise_for_status raised
make_request_records(outcome) == outcome \notin {"network_error", "http_error"}

\* how ticker.history can end
FetchDataOutcomes == {"ok", "empty", "raises"}

\* line 213 is reached only with a history that is not empty
fetch_data_records(outcome) == outcome = "ok"

InitRate ==
    /\ InitFetch
    /\ IdleStem
    /\ IdleIndicators
    /\ IdleCalc
    /\ IdleAgg
    /\ IdleHealth
    /\ rate_now = ALPHA_RATE_LIMIT_DELAY
    /\ last_request_time = [api \in {"alpha_vantage", "yahoo"} |-> 0]
    /\ request_log = [api \in {"alpha_vantage", "yahoo"} |-> <<>>]

\* one call of a fetcher: the wait, the request, and the update of
\* last_request_time where the code reaches it
Request(api, outcome, records) ==
    \E idle \in 0..MaxIdle, duration \in 0..MaxDuration :
      LET called == rate_now + idle
          sent == wait_for_rate_limit(api, called)
          answered == sent + duration
      IN  /\ Len(request_log[api]) < MaxRequests
          /\ answered <= MaxWall
          /\ request_log' = [request_log EXCEPT
                               ![api] = Append(@, [at |-> sent, outcome |-> outcome])]
          /\ last_request_time' = IF records
                                  THEN [last_request_time EXCEPT ![api] = answered]
                                  ELSE last_request_time
          /\ rate_now' = answered
          /\ UNCHANGED <<storeVars, fetchVars, writeVars, stemVars, indicatorVars,
                         calcVars, aggVars, healthVars>>

MakeRequest ==
    \E outcome \in MakeRequestOutcomes :
      Request("alpha_vantage", outcome, make_request_records(outcome))

FetchData ==
    \E outcome \in FetchDataOutcomes :
      Request("yahoo", outcome, fetch_data_records(outcome))

NextRate == MakeRequest \/ FetchData

SpecRate == InitRate /\ [][NextRate]_vars

\* C25: two consecutive requests of a fetcher are at least its RATE_LIMIT_DELAY
\* apart (12 s for Alpha Vantage, 1 s for Yahoo Finance), however the earlier
\* one ended
C25_RequestsAreSpaced ==
    \A api \in DOMAIN request_log :
      \A i \in 1..(Len(request_log[api]) - 1) :
        request_log[api][i + 1].at - request_log[api][i].at >= RATE_LIMIT_DELAY(api)

\* the same, for the requests that follow one that reached the update
SpacedAfterRecorded ==
    \A api \in DOMAIN request_log :
      \A i \in 1..(Len(request_log[api]) - 1) :
        (IF api = "alpha_vantage"
         THEN make_request_records(request_log[api][i].outcome)
         ELSE fetch_data_records(request_log[api][i].outcome))
        => request_log[api][i + 1].at - request_log[api][i].at >= RATE_LIMIT_DELAY(api)

\* ---------------------------------------------------------------------------
\* The market health score: MarketHealthAnalyzer (SpecHealth)
\* ---------------------------------------------------------------------------

MaxOff == 1     \* how far, in tenths, the answers lie around each threshold

\* a price or a yield given in tenths
Tenths(n) == Rat(n, 10)

\* what spy.info can be: the property raises, or a dict with or without
\* 'trailingPE', whose value may be 0, negative or nan
PEValues ==
    {NaN, Tenths(0), Tenths(0 - 50)}
    \cup {Tenths(250 + o) : o \in (0 - MaxOff)..MaxOff}
    \cup {Tenths(300 + o) : o \in (0 - MaxOff)..MaxOff}
SpyInfos ==
    {[raises |-> TRUE], [info |-> <<>>]}
    \cup {[info |-> [k \in {"trailingPE"} |-> v]] : v \in PEValues}

\* what ticker.history(period="5d") can be for ^TYX: the call raises, or a
\* frame whose Close column is given, oldest first
YieldValues ==
    {NaN}
    \cup {Tenths(40 + o) : o \in (0 - MaxOff)..MaxOff}
    \cup {Tenths(45 + o) : o \in (0 - MaxOff)..MaxOff}
TyxHistories ==
    {[raises |-> TRUE]}
    \cup {[Close |-> c] : c \in {<<>>} \cup {<<v>> : v \in YieldValues}
                                \cup {<<v, w>> : v, w \in YieldValues}}

\* bool(pe_ratio), for None or a float
truthy(pe_ratio) ==
    IF pe_ratio = None THEN FALSE
    ELSE IF pe_ratio[1] = NaN THEN TRUE
    ELSE pe_ratio[1][1].num # 0

get_sp500_pe_ratio ==
    IF "raises" \in DOMAIN trailing_pe THEN None
    ELSE LET pe_ratio == get(trailing_pe.info, "trailingPE")
         IN  IF truthy(pe_ratio)
             THEN LET pe == pe_ratio[1]
                      level == IF ge(pe, Rat(30, 1)) THEN 1
                               ELSE IF ge(pe, Rat(25, 1)) THEN 2 ELSE 3
                  IN  Some([value |-> pe,
                            threshold |-> Rat(30, 1),
                            status |-> <<"danger", "warning", "normal">>[level],
                            signal |-> <<"REDUCE EQUITY ALLOCATION", "MONITOR CLOSELY",
                                         "NORMAL">>[level],
                            interpretation |-> <<"P/E of", pe,
                                                 <<"EXCEEDS", "approaching", "below">>[level],
                                                 "historical crash threshold of 30">>])
             ELSE None

get_treasury_30y_yield ==
    IF "raises" \in DOMAIN tyx_close THEN None
    ELSE IF tyx_close.Close # <<>>
    THEN LET latest_yield == tyx_close.Close[Len(tyx_close.Close)]
             level == IF gt(latest_yield, Rat(45, 10)) THEN 1
                      ELSE IF gt(latest_yield, Rat(4, 1)) THEN 2 ELSE 3
         IN  Some([value |-> latest_yield,
                   threshold |-> Rat(45, 10),
                   status |-> <<"danger", "warning", "normal">>[level],
                   signal |-> <<"SHIFT TO FIXED INCOME", "MONITOR", "NORMAL">>[level],
                   interpretation |-> <<"30Y yield at", latest_yield,
                                        <<"EXCEEDS", "approaching", "below">>[level],
                                        "threshold of 4.5%">>])
    ELSE None

get_nyse_new_highs ==
    Some([value |-> None,
          status |-> "unavailable",
          signal |-> "DATA UNAVAILABLE",
          interpretation |-> "NYSE new highs data requires premium data feed"])

\* lines 122-130: the points and the alerts the P/E adds
sp500_pe_contribution_Above30(sp500_pe) ==
    IF sp500_pe = None THEN [points |-> 0, alerts |-> <<>>]
    ELSE IF gt(sp500_pe[1].value, Rat(30, 1))
    THEN [points |-> 4, alerts |-> <<"CRITICAL: S&P 500 P/E at crash threshold">>]
    ELSE IF ge(sp500_pe[1].value, Rat(25, 1))
    THEN [points |-> 2, alerts |-> <<"WARNING: S&P 500 P/E elevated">>]
    ELSE [points |-> 0, alerts |-> <<>>]
sp500_pe_contribution(sp500_pe) ==
    IF sp500_pe = None THEN [points |-> 0, alerts |-> <<>>]
    ELSE IF ge(sp500_pe[1].value, Rat(30, 1))
    THEN [points |-> 4, alerts |-> <<"CRITICAL: S&P 500 P/E at crash threshold">>]
    ELSE IF ge(sp500_pe[1].value, Rat(25, 1))
    THEN [points |-> 2, alerts |-> <<"WARNING: S&P 500 P/E elevated">>]
    ELSE [points |-> 0, alerts |-> <<>>]

\* lines 132-140: the points and the alerts the 30-year yield adds
treasury_30y_contribution(treasury_30y) ==
    IF treasury_30y = None THEN [points |-> 0, alerts |-> <<>>]
    ELSE IF gt(treasury_30y[1].value, Rat(45, 10))
    THEN [points |-> 3, alerts |-> <<"CRITICAL: 30Y yield exceeds 4.5%">>]
    ELSE IF gt(treasury_30y[1].value, Rat(4, 1))
    THEN [points |-> 1, alerts |-> <<"WARNING: 30Y yield rising">>]
    ELSE [points |-> 0, alerts |-> <<>>]

calculate_market_health_score(now) ==
    LET indicators == [sp500_pe |-> get_sp500_pe_ratio,
                       treasury_30y |-> get_treasury_30y_yield,
                       nyse_new_highs |-> get_nyse_new_highs]
        from_pe == sp500_pe_contribution(indicators.sp500_pe)
        from_yield == treasury_30y_contribution(indicators.treasury_30y)
        risk_score == 0 + from_pe.points + from_yield.points
        alerts == <<>> \o from_pe.alerts \o from_yield.alerts
        level == IF risk_score >= 6 THEN 1 ELSE IF risk_score >= 3 THEN 2 ELSE 3
    IN  [timestamp |-> now,
         risk_score |-> risk_score,
         max_score |-> 10,
         overall_status |-> <<"DANGER", "WARNING", "NORMAL">>[level],
         recommendation |-> <<"REDUCE EQUITY EXPOSURE - Consider moving to 50% equities",
                              "MONITOR CLOSELY - Prepare exit strategy",
                              "MAINTAIN CURRENT ALLOCATION">>[level],
         alerts |-> alerts,
         indicators |-> indicators]

InitHealth ==
    /\ InitFetch
    /\ IdleStem
    /\ IdleIndicators
    /\ IdleCalc
    /\ IdleAgg
    /\ IdleRate
    /\ trailing_pe \in SpyInfos
    /\ tyx_close \in TyxHistories
    /\ health_assessment = None

CalculateMarketHealthScore ==
    /\ health_assessment = None
    /\ \E now \in Later(clock) :
         /\ health_assessment' = Some(calculate_market_health_score(now))
         /\ clock' = now
    /\ UNCHANGED <<metadata, raw, last_save, fetchVars, writeVars, stemVars, indicatorVars,
                   calcVars, aggVars, rateVars, trailing_pe, tyx_close>>

NextHealth == CalculateMarketHealthScore

SpecHealth == InitHealth /\ [][NextHealth]_vars

\* the P/E and the yield the two sources answered, where they answered one
AnsweredPE ==
    IF "raises" \in DOMAIN trailing_pe THEN NaN
    ELSE IF "trailingPE" \in DOMAIN trailing_pe.info
    THEN trailing_pe.info["trailingPE"] ELSE NaN
AnsweredYield ==
    IF "raises" \in DOMAIN tyx_close THEN NaN
    ELSE IF tyx_close.Close = <<>> THEN NaN
    ELSE tyx_close.Close[Len(tyx_close.Close)]
PEPoints ==
    IF ge(AnsweredPE, Tenths(300)) THEN 4
    ELSE IF ge(AnsweredPE, Tenths(250)) /\ lt(AnsweredPE, Tenths(300)) THEN 2 ELSE 0
YieldPoints ==
    IF gt(AnsweredYield, Tenths(45)) THEN 3
    ELSE IF gt(AnsweredYield, Tenths(40)) /\ le(AnsweredYield, Tenths(45)) THEN 1 ELSE 0

\* C26: the risk score is the P/E contribution (4 from 30, 2 from 25 to below
\* 30, else 0) plus the 30-year-yield contribution (3 above 4.5, 1 above 4.0 up
\* to 4.5, else 0), an indicator without an answer adding 0; it lies between 0
\* and max_score = 10; the status is DANGER from 6, WARNING from 3 to below 6,
\* NORMAL below; and there is one alert for each contribution that is not 0
C26_RiskScoreIsSumOfContributions ==
    health_assessment # None =>
      LET a == health_assessment[1]
      IN  /\ a.risk_score = PEPoints + YieldPoints
          /\ a.max_score = 10
          /\ a.risk_score >= 0 /\ a.risk_score <= a.max_score
          /\ (a.overall_status = "DANGER") = (a.risk_score >= 6)
          /\ (a.overall_status = "WARNING") = (a.risk_score >= 3 /\ a.risk_score < 6)
          /\ (a.overall_status = "NORMAL") = (a.risk_score < 3)
          /\ Len(a.alerts) = (IF PEPoints # 0 THEN 1 ELSE 0) + (IF YieldPoints # 0 THEN 1 ELSE 0)

\* a P/E of exactly 30 with a yield above 4.5: 4 + 3 points, DANGER, two alerts
C26_Witness ==
    /\ health_assessment # None
    /\ AnsweredPE = Tenths(300)
    /\ health_assessment[1].risk_score = 7
    /\ health_assessment[1].overall_status = "DANGER"
    /\ Len(health_assessment[1].alerts) = 2

\* ---------------------------------------------------------------------------
\* The bar count recorded in update_status.json (Spec)
\* ---------------------------------------------------------------------------

\* the number of bars in the symbol's raw file, 0 without a file
StoredBars(symbol) ==
    LET file == load_symbol_data(symbol)
    IN  IF file = None THEN 0 ELSE Len(file[1].data)

\* C28: for every symbol with a metadata entry, data_points is the number of
\* bars in the symbol's raw file (0 only when it has no stored bars), so a
\* failed attempt on a symbol with stored bars leaves the count as it was
C28_DataPointsIsBarCount ==
    \A symbol \in DOMAIN metadata :
      metadata[symbol].data_points = StoredBars(symbol)

\* the same, for the entries whose last attempt did not fail
DataPointsIsBarCountUnlessFailed ==
    \A symbol \in DOMAIN metadata :
      metadata[symbol].last_fetch_status = <<"success">>
      => metadata[symbol].data_points = StoredBars(symbol)

\* ---------------------------------------------------------------------------
\* Two symbols and their files (SpecStem)
\* ---------------------------------------------------------------------------

\* C29: two different symbol strings never get the same file: the stem of the
\* raw file, of the technical file and of the fundamentals file of a symbol is
\* the stem of no other symbol
C29_DistinctSymbolsDistinctFiles ==
    safe_symbol # None =>
      \A other \in SymbolStrings \ {symbol_arg} :
        /\ get_symbol_file_path(other) # safe_symbol[1].raw
        /\ save_analytics_safe_symbol(other) # safe_symbol[1].analytics
        /\ load_technical_data_safe_symbol(other) # safe_symbol[1].technical
        /\ save_fundamentals_safe_symbol(other) # safe_symbol[1].fundamentals

\* the same, for symbols without '-', '^' and '_'
PlainSymbolsDistinctFiles ==
    LET plain(t) == \A i \in 1..Len(t) : t[i] \notin {"-", "^", "_"}
    IN  (safe_symbol # None /\ plain(symbol_arg)) =>
          \A other \in {t \in SymbolStrings : plain(t)} \ {symbol_arg} :
            get_symbol_file_path(other) # safe_symbol[1].raw

\* ---------------------------------------------------------------------------
\* fetch_batch run again and again, without end (SpecLive)
\*
\* The runs are not counted and the times are kept as ranks: after every
\* attempt the values of last_updated in update_status.json and in the raw
\* files are renumbered 1, 2, ... in their order, which is all that
\* _get_prioritized_tickers looks at.  Every attempt reads a time later than
\* all times read before.  The tickers are the enabled rows whose api_source
\* fetch_symbol knows.
\* ---------------------------------------------------------------------------

LiveTickers ==
    SelectSeq(load_tickers, LAMBDA t : t.api_source \in {"yahoo_finance", "alpha_vantage"})

\* the times recorded in update_status.json and in the raw files
Stamps(md, files_raw) ==
    {md[s].last_updated : s \in DOMAIN md}
    \cup {files_raw[f].last_updated : f \in DOMAIN files_raw}

\* the rank of time t among the recorded times
RankOf(stamps, t) == Cardinality({u \in stamps : u <= t})

Renumbered(f, stamps) ==
    [k \in DOMAIN f |-> [f[k] EXCEPT !.last_updated = RankOf(stamps, @)]]

\* fetch_symbol at time now: update_status.json and the raw files after it
fetch_symbol_at(md, files_raw, ticker, r, now) ==
    IF r.kind = "data"
    THEN LET combined == combined_data(get(files_raw, get_symbol_file_path(ticker.symbol)),
                                       r.data)
         IN  [metadata |-> update_metadata(md, ticker.symbol, <<"success">>,
                                           Len(combined), now),
              raw |-> put(files_raw, get_symbol_file_path(ticker.symbol),
                          full_data(ticker.symbol, ticker.type, ticker.category,
                                    ticker.api_source, now, combined))]
    ELSE IF fetch_symbol_marks(r) # None
    THEN [metadata |-> mark_symbol_failed(md, ticker.symbol, fetch_symbol_marks(r)[1], now),
          raw |-> files_raw]
    ELSE [metadata |-> md, raw |-> files_raw]

\* the fixed batch size N >= 1 is chosen once
InitLive ==
    /\ InitNoRaw
    /\ raw = <<>>
    /\ IdleStem
    /\ IdleIndicators
    /\ IdleCalc
    /\ IdleAgg
    /\ IdleRate
    /\ IdleHealth

\* the first run fixes --batch-size; every later run uses the same
LiveStartBatch ==
    /\ pc = "idle"
    /\ \E n \in (IF max_symbols = 0 THEN 1..MaxBatch ELSE {max_symbols}), key \in BOOLEAN :
         LET order == get_prioritized_tickers(metadata, LiveTickers)
         IN  /\ max_symbols' = n
             /\ alpha_vantage' = key
             /\ ticker_priorities' =
                    [i \in 1..Len(order) |->
                        [symbol |-> order[i].symbol,
                         level |-> get_symbol_priority(metadata, order[i])[1],
                         last_updated |-> get_symbol_priority(metadata, order[i])[2]]]
             /\ prioritized' = order
             /\ batch' = select_batch(order, n)
             /\ pc' = IF select_batch(order, n) = <<>> THEN "summary" ELSE "loop"
    /\ idx' = 1
    /\ successful' = 0
    /\ failed' = 0
    /\ rate_limited' = FALSE
    /\ attempted' = <<>>
    /\ UNCHANGED <<storeVars, runs, propagated, summary, writeVars, laterVars>>

\* one iteration of the for loop of fetch_batch
LiveFetchStep ==
    /\ pc = "loop"
    /\ \E resp \in Responses :
         LET ticker == batch[idx]
             r == route(ticker, alpha_vantage, resp)
             result == fetch_symbol_result(r)
             after == fetch_symbol_at(metadata, raw, ticker, r, clock + 1)
             stamps == Stamps(after.metadata, after.raw)
         IN  /\ metadata' = Renumbered(after.metadata, stamps)
             /\ raw' = Renumbered(after.raw, stamps)
             /\ clock' = Cardinality(stamps)
             /\ attempted' = Append(attempted, [symbol |-> ticker.symbol, result |-> result,
                                                 kind |-> r.kind, error |-> r.error,
                                                 data |-> r.data])
             /\ successful' = IF result = "True" THEN successful + 1 ELSE successful
             /\ failed' = IF result = "False" THEN failed + 1 ELSE failed
             /\ rate_limited' = (rate_limited \/ batch_catches(result))
             /\ IF loop_continues(result, idx, Len(batch))
                THEN pc' = "loop" /\ idx' = idx + 1
                ELSE pc' = "summary" /\ idx' = idx
    /\ UNCHANGED <<last_save, alpha_vantage, runs, max_symbols, ticker_priorities,
                   prioritized, batch, propagated, summary, writeVars, laterVars>>

\* the summary; the run is over and the next one can start
LivePrintSummary ==
    /\ pc = "summary"
    /\ summary' = [successful |-> successful, failed |-> failed,
                   remaining |-> remaining_in_queue(LiveTickers, successful, failed),
                   rate_limited |-> rate_limited]
    /\ pc' = "idle"
    /\ UNCHANGED <<storeVars, alpha_vantage, runs, max_symbols, ticker_priorities,
                   prioritized, batch, idx, successful, failed, rate_limited, attempted,
                   propagated, writeVars, laterVars>>

NextLive == LiveStartBatch \/ LiveFetchStep \/ LivePrintSummary

\* the scheduler starts run after run and every run goes on to its end
SpecLive == InitLive /\ [][NextLive]_vars /\ WF_vars(NextLive)

\* the symbol has been handed to fetch_symbol in the current run
AttemptedInRun(symbol) ==
    \E i \in 1..Len(attempted) : attempted[i].symbol = symbol

\* C27: with a fixed batch size N >= 1, every enabled symbol is attempted in
\* infinitely many of the runs, whatever the outcomes of the fetches
C27_NoSymbolStarves ==
    \A i \in 1..Len(LiveTickers) : []<>AttemptedInRun(LiveTickers[i].symbol)

\* run follows run: the fetcher is idle again and again
RunsGoOn == []<>(pc = "idle") /\ []<>(pc = "loop")

====
